---- MODULE Spec2Model ----
(***************************************************************************)
(* Replication change tracking and dependency resolution of the SpatialGDK *)
(* actor channel (SpatialActorChannel.cpp) and sender (SpatialSender.cpp). *)
(*                                                                         *)
(* The sender's four update indices, its pending-RPC map and the channel's *)
(* creation flags are the state.  Every handler is one action; the private *)
(* helpers it calls are operators on a record `s` holding the sender's     *)
(* containers, threaded through the handler in program order.              *)
(***************************************************************************)
EXTENDS Integers, Sequences, FiniteSets, TLC

(***************************************************************************)
(* The world the handlers run in.                                          *)
(***************************************************************************)

\* Objects that fields and RPC parameters may reference (UObject*).
Targets == {"X", "Y"}

\* Actor channels, the actor each one replicates, and the replicated
\* subobjects (components) of that actor.
Channels == {"c1"}
ActorOf(c) == "A1"
SubobjectsOf(c) == {"S1"}
ObjectsOf(c) == {ActorOf(c)} \cup SubobjectsOf(c)

AllObjects == UNION {ObjectsOf(c) : c \in Channels}

\* A subobject that holds handover properties and may start replicating
\* after its actor was attached.
LateSubobjects == {"H1"}

\* FChannelObjectPair: the key of the update indices.
Pairs == {<<c, o>> : c \in Channels, o \in ObjectsOf("c1")}

\* FRepLayout::Cmds of an object's class, Cmds[CmdIdx + 1] being the
\* source's Cmds[CmdIdx]: the actor has a plain property (handle 1) and a
\* dynamic array (handle 2) of one-property elements; the subobject has a
\* plain property.  EndCmd is the index after the array's terminating Return.
CmdsOf(o) ==
    IF o = "A1"
    THEN << [Type |-> "Property", RelativeHandle |-> 1, EndCmd |-> 0],
            [Type |-> "DynamicArray", RelativeHandle |-> 2, EndCmd |-> 4],
            [Type |-> "Property", RelativeHandle |-> 1, EndCmd |-> 0],
            [Type |-> "Return", RelativeHandle |-> 0, EndCmd |-> 0],
            [Type |-> "Return", RelativeHandle |-> 0, EndCmd |-> 0] >>
    ELSE << [Type |-> "Property", RelativeHandle |-> 1, EndCmd |-> 0],
            [Type |-> "Return", RelativeHandle |-> 0, EndCmd |-> 0] >>

\* FRepLayout::BaseHandleToCmdIndex: root handle -> CmdIndex.
BaseHandleToCmdIndex(o) == IF o = "A1" THEN << 0, 1 >> ELSE << 0 >>

\* The replicated (fine-grained) root property handles of an object's class,
\* and which of them are dynamic arrays.
RepHandlesOf(o) == DOMAIN BaseHandleToCmdIndex(o)
ArrayHandlesOf(o) ==
    {h \in RepHandlesOf(o) : CmdsOf(o)[BaseHandleToCmdIndex(o)[h] + 1].Type = "DynamicArray"}

\* The handover property handles of an object's class.
HandoverHandlesOf(o) == IF o \in {"A1"} \cup LateSubobjects THEN {1} ELSE {}

\* bIsHandover selects the handover containers, ~bIsHandover the rep ones.
HandlesOf(o, bIsHandover) == IF bIsHandover THEN HandoverHandlesOf(o) ELSE RepHandlesOf(o)

\* A change-list pointer that is null.
nullptr == << -1 >>

(***************************************************************************)
(* TMap helpers: a map is a function whose DOMAIN is its key set.          *)
(***************************************************************************)
EmptyMap == [x \in {} |-> {}]

MapRemove(m, k) == [x \in (DOMAIN m) \ {k} |-> m[x]]

MapAdd(m, k, v) == [x \in (DOMAIN m) \cup {k} |-> IF x = k THEN v ELSE m[x]]

\* TMap::FindOrAdd: the value under k, default-constructed when absent.
FindOrAdd(m, k, default) == IF k \in DOMAIN m THEN m[k] ELSE default

(***************************************************************************)
(* State.                                                                  *)
(***************************************************************************)
VARIABLES
    \* USpatialSender (SpatialSender.h:107-115)
    RepPropertyToUnresolved,       \* (channel, object) -> handle -> pending set
    RepObjectToUnresolved,         \* target -> (channel, object) -> handles
    HandoverPropertyToUnresolved,
    HandoverObjectToUnresolved,
    OutgoingRPCs,                  \* unresolved object -> queued RPCs, in order
    \* USpatialActorChannel
    Actor,                         \* channel -> its actor, "null" before attach
    EntityId,                      \* channel -> Worker_EntityId, 0 when absent
    bCreatingNewEntity,            \* channel -> BOOLEAN
    HandoverShadowDataMap,         \* object -> handle -> shadowed value
    WorkingSetId,                  \* channel -> its working set, -1 when none
    \* UWorkingSetManager
    WorkingSets,                   \* working set id -> enqueued channels
    \* collaborators
    Resolved,                      \* objects the package map has an entity for
    Invalid,                       \* objects destroyed or pending kill
    HandoverData,                  \* object -> handle -> current field value
    HandoverSubobjects,            \* actor -> its subobjects with handover properties
    RepLayout,                     \* FRepLayout::Cmds of the replicator handed to
                                   \* CreateInitialRepChangeState
    bFirstTick,                    \* channel -> BOOLEAN
    bNetOwned,                     \* channel -> BOOLEAN
    IsServer,                      \* NetDriver->IsServer()
    EntityRegistry,                \* actor -> entity id
    ActorChannels,                 \* net driver: entity id -> channel
    PendingActorRequests,          \* requests awaiting a response, per channel
    ActorClass,                    \* actor -> its class: name, singleton flag, stable name
    \* FObjectReplicator (engine): the change-list ledgers of each object
    RepState,                      \* object -> the channel's FRepState
    ChangelistState,               \* object -> the shared FRepChangelistState
    PeerRepState,                  \* object -> the FRepState of another connection's channel
    \* observation
    Sent,                          \* what the last handler sent, in order
    Resets,                        \* the pending entries the last handler reset
    LastCall,                      \* the last handler invoked and its arguments
    Halted,                        \* "" while running, else the failed check
    Failures                       \* failure responses delivered so far

vars == <<RepPropertyToUnresolved, RepObjectToUnresolved,
          HandoverPropertyToUnresolved, HandoverObjectToUnresolved, OutgoingRPCs,
          Actor, EntityId, bCreatingNewEntity, HandoverShadowDataMap,
          WorkingSetId, WorkingSets, Resolved, Invalid, HandoverData, HandoverSubobjects, RepLayout,
          bFirstTick, bNetOwned, IsServer,
          EntityRegistry, ActorChannels, PendingActorRequests, ActorClass, RepState, ChangelistState, PeerRepState,
          Sent, Resets, LastCall, Halted, Failures>>

(***************************************************************************)
(* The sender's containers as one record, threaded through a handler.      *)
(* P[bIsHandover] is the forward map (..PropertyToUnresolved) and          *)
(* O[bIsHandover] the reverse map (..ObjectToUnresolved).  A pending set   *)
(* is one shared object (FUnresolvedEntry, a TSharedPtr): it is stored     *)
(* once, in the forward map; the reverse map holds the keys under which    *)
(* the same pointer is stored.                                             *)
(***************************************************************************)
SenderState ==
    [P |-> [b \in BOOLEAN |-> IF b THEN HandoverPropertyToUnresolved ELSE RepPropertyToUnresolved],
     O |-> [b \in BOOLEAN |-> IF b THEN HandoverObjectToUnresolved ELSE RepObjectToUnresolved],
     RPCs |-> OutgoingRPCs,
     Requests |-> PendingActorRequests,
     sent |-> << >>,
     resets |-> {},
     halted |-> "",
     dangling |-> FALSE]

Halt(s, why) == IF s.halted = "" THEN [s EXCEPT !.halted = why] ELSE s

\* TWeakObjectPtr::IsValid on both halves of an FChannelObjectPair.
PairIsValid(pair) == pair[1] \notin Invalid /\ pair[2] \notin Invalid

(***************************************************************************)
(* USpatialSender::ResetOutgoingUpdate                                     *)
(***************************************************************************)

\* The loop over the entry's targets (SpatialSender.cpp:450-464), on the
\* reverse map `o`.  FindChecked halts when the key is missing.
RECURSIVE ResetReverseIndex(_, _, _, _)
ResetReverseIndex(o, todo, ChannelObjectPair, Handle) ==
    IF todo = {} THEN [map |-> o, halted |-> ""]
    ELSE LET UnresolvedObject == CHOOSE x \in todo : TRUE IN
         IF UnresolvedObject \notin DOMAIN o
         THEN [map |-> o, halted |-> "ResetOutgoingUpdate: FindChecked(UnresolvedObject)"]
         ELSE IF ChannelObjectPair \notin DOMAIN o[UnresolvedObject]
         THEN [map |-> o, halted |-> "ResetOutgoingUpdate: FindChecked(ChannelObjectPair)"]
         ELSE LET ChannelToUnresolved == o[UnresolvedObject]
                  OtherHandleToUnresolved == ChannelToUnresolved[ChannelObjectPair] \ {Handle}
                  inner == IF OtherHandleToUnresolved = {}
                           THEN MapRemove(ChannelToUnresolved, ChannelObjectPair)
                           ELSE MapAdd(ChannelToUnresolved, ChannelObjectPair, OtherHandleToUnresolved)
                  o2 == IF OtherHandleToUnresolved = {} /\ DOMAIN inner = {}
                        THEN MapRemove(o, UnresolvedObject)
                        ELSE MapAdd(o, UnresolvedObject, inner)
              IN ResetReverseIndex(o2, todo \ {UnresolvedObject}, ChannelObjectPair, Handle)

\* HandleToUnresolved.Remove(Handle), and the pair's entry removed with its
\* last handle (SpatialSender.cpp:466-470 and 632-637).
RemoveHandle(PropertyToUnresolved, ChannelObjectPair, Handle) ==
    IF DOMAIN PropertyToUnresolved[ChannelObjectPair] \subseteq {Handle}
    THEN MapRemove(PropertyToUnresolved, ChannelObjectPair)
    ELSE MapAdd(PropertyToUnresolved, ChannelObjectPair,
                MapRemove(PropertyToUnresolved[ChannelObjectPair], Handle))

\* Faulty variant: the forward entry is removed and the reverse index is
\* left as it was.
StoreResetForward(s, ChannelObjectPair, Handle, bIsHandover, r) ==
    [s EXCEPT !.P[bIsHandover] = RemoveHandle(@, ChannelObjectPair, Handle),
              !.resets = @ \cup {<<ChannelObjectPair, Handle, bIsHandover>>}]

\* The reverse map after the loop, and the forward entry removed unless a
\* FindChecked in the loop halted.
StoreReset(s, ChannelObjectPair, Handle, bIsHandover, r) ==
    IF r.halted # ""
    THEN [s EXCEPT !.O[bIsHandover] = r.map, !.halted = r.halted]
    ELSE [s EXCEPT !.O[bIsHandover] = r.map,
                   !.P[bIsHandover] = RemoveHandle(@, ChannelObjectPair, Handle),
                   !.resets = @ \cup {<<ChannelObjectPair, Handle, bIsHandover>>}]

ResetOutgoingUpdate(s, ChannelObjectPair, Handle, bIsHandover) ==
    IF s.halted # "" THEN s
    ELSE IF ChannelObjectPair \notin DOMAIN s.P[bIsHandover] THEN s
    ELSE IF Handle \notin DOMAIN s.P[bIsHandover][ChannelObjectPair] THEN s
    ELSE StoreReset(s, ChannelObjectPair, Handle, bIsHandover,
                    ResetReverseIndex(s.O[bIsHandover],
                                      s.P[bIsHandover][ChannelObjectPair][Handle],
                                      ChannelObjectPair, Handle))

(***************************************************************************)
(* USpatialSender::QueueOutgoingUpdate                                     *)
(***************************************************************************)

\* The loop over UnresolvedObjects (SpatialSender.cpp:493-501).
RECURSIVE QueueReverseIndex(_, _, _, _)
QueueReverseIndex(o, todo, ChannelObjectPair, Handle) ==
    IF todo = {} THEN [map |-> o, halted |-> ""]
    ELSE LET UnresolvedObject == CHOOSE x \in todo : TRUE
             ChannelToUnresolved == FindOrAdd(o, UnresolvedObject, EmptyMap)
             AnotherHandleToUnresolved == FindOrAdd(ChannelToUnresolved, ChannelObjectPair, {})
             o2 == MapAdd(o, UnresolvedObject,
                          MapAdd(ChannelToUnresolved, ChannelObjectPair,
                                 AnotherHandleToUnresolved \cup {Handle}))
         IN  IF Handle \in AnotherHandleToUnresolved
             THEN [map |-> o2, halted |-> "QueueOutgoingUpdate: check(!AnotherHandleToUnresolved.Find(Handle))"]
             ELSE QueueReverseIndex(o2, todo \ {UnresolvedObject}, ChannelObjectPair, Handle)

\* Faulty variant: the forward entry goes to the replicated-property map
\* whatever the kind.
StoreQueueOneMap(s, ChannelObjectPair, Handle, UnresolvedObjects, bIsHandover, r) ==
    [s EXCEPT !.P[FALSE] =
                  MapAdd(@, ChannelObjectPair,
                         MapAdd(FindOrAdd(@, ChannelObjectPair, EmptyMap),
                                Handle, UnresolvedObjects)),
              !.O[bIsHandover] = r.map,
              !.halted = r.halted]

\* HandleToUnresolved.Add(Handle, Unresolved) and the reverse map after the
\* loop (SpatialSender.cpp:491-501).
StoreQueue(s, ChannelObjectPair, Handle, UnresolvedObjects, bIsHandover, r) ==
    [s EXCEPT !.P[bIsHandover] =
                  MapAdd(@, ChannelObjectPair,
                         MapAdd(FindOrAdd(@, ChannelObjectPair, EmptyMap),
                                Handle, UnresolvedObjects)),
              !.O[bIsHandover] = r.map,
              !.halted = r.halted]

\* Faulty variant: an existing entry is replaced without complaint.
QueueOutgoingUpdateReplace(s, ChannelObjectPair, Handle, UnresolvedObjects, bIsHandover) ==
    IF s.halted # "" THEN s
    ELSE StoreQueue(s, ChannelObjectPair, Handle, UnresolvedObjects, bIsHandover,
                    [map |-> QueueReverseIndex(s.O[bIsHandover], UnresolvedObjects,
                                               ChannelObjectPair, Handle).map,
                     halted |-> ""])

QueueOutgoingUpdate(s, ChannelObjectPair, Handle, UnresolvedObjects, bIsHandover) ==
    IF s.halted # "" THEN s
    ELSE IF Handle \in DOMAIN FindOrAdd(s.P[bIsHandover], ChannelObjectPair, EmptyMap)
    THEN Halt(s, "QueueOutgoingUpdate: check(!HandleToUnresolved.Find(Handle))")
    ELSE StoreQueue(s, ChannelObjectPair, Handle, UnresolvedObjects, bIsHandover,
                    QueueReverseIndex(s.O[bIsHandover], UnresolvedObjects,
                                      ChannelObjectPair, Handle))

(***************************************************************************)
(* ComponentFactory (outside this repository's sources shown here): it     *)
(* walks the change lists, writes every field whose references are all     *)
(* resolved, and reports the others in the two unresolved-object maps.     *)
(***************************************************************************)

\* The property handles a framed rep change list names: a dynamic array's
\* handle is followed by a count and that many interior entries plus the
\* array's terminator, which are jumped over; a zero ends the list.
RECURSIVE RootHandlesFrom(_, _, _)
RootHandlesFrom(Object, RepChanged, i) ==
    IF i > Len(RepChanged) \/ RepChanged[i] = 0 THEN << >>
    ELSE IF RepChanged[i] \in ArrayHandlesOf(Object) /\ i + 1 <= Len(RepChanged)
         THEN << RepChanged[i] >> \o RootHandlesFrom(Object, RepChanged, i + RepChanged[i + 1] + 3)
         ELSE << RepChanged[i] >> \o RootHandlesFrom(Object, RepChanged, i + 1)

RootHandles(Object, RepChanges) ==
    IF RepChanges = nullptr THEN {}
    ELSE LET hs == RootHandlesFrom(Object, RepChanges, 1)
         IN  {hs[i] : i \in 1..Len(hs)}

HandoverHandles(HandoverChanges) ==
    IF HandoverChanges = nullptr THEN {}
    ELSE {HandoverChanges[i] : i \in 1..Len(HandoverChanges)}

\* RepRefs and HandoverRefs give, per handle, the objects the field's
\* current value references.
CreateComponentUpdates(Object, RepChanges, HandoverChanges, RepRefs, HandoverRefs) ==
    LET rep == RootHandles(Object, RepChanges) \cap DOMAIN RepRefs
        hand == HandoverHandles(HandoverChanges) \cap DOMAIN HandoverRefs
        repBlocked == {h \in rep : RepRefs[h] \ Resolved # {}}
        handBlocked == {h \in hand : HandoverRefs[h] \ Resolved # {}}
    IN  [UnresolvedObjectsMap |-> [h \in repBlocked |-> RepRefs[h] \ Resolved],
         HandoverUnresolvedObjectsMap |-> [h \in handBlocked |-> HandoverRefs[h] \ Resolved],
         RepWritten |-> rep \ repBlocked,
         HandoverWritten |-> hand \ handBlocked,
         RepRead |-> [h \in rep |-> RepRefs[h]],
         HandoverRead |-> [h \in hand |-> HandoverRefs[h]]]

(***************************************************************************)
(* USpatialSender::SendComponentUpdates                                    *)
(***************************************************************************)

\* The loop over RepChanges->RepChanged (SpatialSender.cpp:200-211).
RECURSIVE ResetAndQueueRep(_, _, _, _, _)
ResetAndQueueRep(s, ChannelObjectPair, RepChanged, i, UnresolvedObjectsMap) ==
    IF i > Len(RepChanged) THEN s
    ELSE LET Handle == RepChanged[i]
             s1 == IF Handle > 0
                   THEN ResetOutgoingUpdate(s, ChannelObjectPair, Handle, FALSE)
                   ELSE s
             s2 == IF Handle > 0 /\ Handle \in DOMAIN UnresolvedObjectsMap
                   THEN QueueOutgoingUpdate(s1, ChannelObjectPair, Handle,
                                            UnresolvedObjectsMap[Handle], FALSE)
                   ELSE s1
         IN  ResetAndQueueRep(s2, ChannelObjectPair, RepChanged, i + 1, UnresolvedObjectsMap)

\* The loop over *HandoverChanges (SpatialSender.cpp:216-224).
RECURSIVE ResetAndQueueHandover(_, _, _, _, _)
ResetAndQueueHandover(s, ChannelObjectPair, HandoverChanges, i, HandoverUnresolvedObjectsMap) ==
    IF i > Len(HandoverChanges) THEN s
    ELSE LET Handle == HandoverChanges[i]
             s1 == ResetOutgoingUpdate(s, ChannelObjectPair, Handle, TRUE)
             s2 == IF Handle \in DOMAIN HandoverUnresolvedObjectsMap
                   THEN QueueOutgoingUpdate(s1, ChannelObjectPair, Handle,
                                            HandoverUnresolvedObjectsMap[Handle], TRUE)
                   ELSE s1
         IN  ResetAndQueueHandover(s2, ChannelObjectPair, HandoverChanges, i + 1,
                                   HandoverUnresolvedObjectsMap)

\* The updates handed to the connection (SpatialSender.cpp:227-230): one
\* entry of Sent per call, with the change lists handed in, the references
\* of the fields the factory read and the handles it wrote.
SendUpdatesOf(s, Object, Channel, RepChanges, HandoverChanges, f) ==
    IF s.halted # "" THEN s
    ELSE [s EXCEPT !.sent = Append(@,
              [op |-> "SendComponentUpdates", Channel |-> Channel, Object |-> Object,
               EntityId |-> EntityId[Channel],
               RepChanges |-> RepChanges, HandoverChanges |-> HandoverChanges,
               RepWritten |-> f.RepWritten, HandoverWritten |-> f.HandoverWritten,
               RepRead |-> f.RepRead, HandoverRead |-> f.HandoverRead])]

\* Faulty variant: pending entries are reset only when the new values have
\* unresolved references.
RepLoopBlocked(s, pair, RepChanges, f) ==
    IF RepChanges # nullptr /\ DOMAIN f.UnresolvedObjectsMap # {}
    THEN ResetAndQueueRep(s, pair, RepChanges, 1, f.UnresolvedObjectsMap)
    ELSE s

RepLoop(s, pair, RepChanges, f) ==
    IF RepChanges # nullptr
    THEN ResetAndQueueRep(s, pair, RepChanges, 1, f.UnresolvedObjectsMap)
    ELSE s

HandoverLoop(s, pair, HandoverChanges, f) ==
    IF HandoverChanges # nullptr
    THEN ResetAndQueueHandover(s, pair, HandoverChanges, 1, f.HandoverUnresolvedObjectsMap)
    ELSE s

ApplyComponentUpdates(s, Object, Channel, RepChanges, HandoverChanges, f) ==
    SendUpdatesOf(HandoverLoop(RepLoop(s, <<Channel, Object>>, RepChanges, f),
                               <<Channel, Object>>, HandoverChanges, f),
                  Object, Channel, RepChanges, HandoverChanges, f)

SendComponentUpdates(s, Object, Channel, RepChanges, HandoverChanges, RepRefs, HandoverRefs) ==
    ApplyComponentUpdates(s, Object, Channel, RepChanges, HandoverChanges,
        CreateComponentUpdates(Object, RepChanges, HandoverChanges, RepRefs, HandoverRefs))

(***************************************************************************)
(* USpatialActorChannel::IsDynamicArrayHandle                              *)
(***************************************************************************)
IsDynamicArrayHandle(Object, Handle) ==
    CmdsOf(Object)[BaseHandleToCmdIndex(Object)[Handle] + 1].Type = "DynamicArray"

(***************************************************************************)
(* USpatialSender::ResolveOutgoingOperations                               *)
(***************************************************************************)

\* Whether the forward map stores the set a reverse-map entry points at.
Stored(s, ChannelObjectPair, Handle, bIsHandover) ==
    /\ ChannelObjectPair \in DOMAIN s.P[bIsHandover]
    /\ Handle \in DOMAIN s.P[bIsHandover][ChannelObjectPair]

\* The set a reverse-map entry points at: the shared pending set, which
\* holds Object alone when the forward map no longer stores it.
PointedSet(s, ChannelObjectPair, Handle, bIsHandover, Object) ==
    IF Stored(s, ChannelObjectPair, Handle, bIsHandover)
    THEN s.P[bIsHandover][ChannelObjectPair][Handle]
    ELSE {Object}

\* Unresolved->Remove(Object) (SpatialSender.cpp:621).
RemoveObject(s, ChannelObjectPair, Handle, bIsHandover, Object) ==
    IF Stored(s, ChannelObjectPair, Handle, bIsHandover)
    THEN [s EXCEPT !.P[bIsHandover][ChannelObjectPair][Handle] = @ \ {Object}]
    ELSE s

\* Faulty variant: a flushed dynamic array is given no framing markers.
FlushHandleUnframed(r, ChannelObjectPair, Handle, bIsHandover) ==
    IF ChannelObjectPair \notin DOMAIN r.s.P[bIsHandover]
    THEN [r EXCEPT !.s = Halt(@, "ResolveOutgoingOperations: FindChecked(ChannelObjectPair)")]
    ELSE [s |-> [r.s EXCEPT !.P[bIsHandover] = RemoveHandle(@, ChannelObjectPair, Handle)],
          PropertyHandles |-> r.PropertyHandles \o << Handle >>]

\* The body of `if (Unresolved->Num() == 0)` (SpatialSender.cpp:624-638).
FlushHandle(r, ChannelObjectPair, Handle, bIsHandover) ==
    IF ~bIsHandover /\ Handle \notin RepHandlesOf(ChannelObjectPair[2])
    THEN [r EXCEPT !.s = Halt(@, "IsDynamicArrayHandle: check(Handle - 1 < Num)")]
    ELSE IF ChannelObjectPair \notin DOMAIN r.s.P[bIsHandover]
    THEN [r EXCEPT !.s = Halt(@, "ResolveOutgoingOperations: FindChecked(ChannelObjectPair)")]
    ELSE [s |-> [r.s EXCEPT !.P[bIsHandover] = RemoveHandle(@, ChannelObjectPair, Handle)],
          PropertyHandles |->
              r.PropertyHandles \o << Handle >> \o
              (IF ~bIsHandover /\ IsDynamicArrayHandle(ChannelObjectPair[2], Handle)
               THEN <<0, 0>> ELSE << >>)]

\* Faulty variant: the handle is flushed while targets remain unresolved.
ResolveHandleEarly(r, ChannelObjectPair, Handle, bIsHandover, Object, left) ==
    FlushHandle([r EXCEPT !.s = RemoveObject(@, ChannelObjectPair, Handle,
                                             bIsHandover, Object)],
                ChannelObjectPair, Handle, bIsHandover)

\* One iteration of the loop over HandleToUnresolved (SpatialSender.cpp:
\* 616-640): `left` is what the pending set holds once Object is removed.
ResolveHandle(r, ChannelObjectPair, Handle, bIsHandover, Object, left) ==
    IF left # {}
    THEN [r EXCEPT !.s = RemoveObject(@, ChannelObjectPair, Handle, bIsHandover, Object)]
    ELSE FlushHandle([r EXCEPT !.s = RemoveObject(@, ChannelObjectPair, Handle,
                                                  bIsHandover, Object)],
                     ChannelObjectPair, Handle, bIsHandover)

\* The loop over HandleToUnresolved; r.s is the sender, r.PropertyHandles
\* the list built so far.
RECURSIVE ResolveHandles(_, _, _, _, _, _)
ResolveHandles(r, Object, ChannelObjectPair, handles, i, bIsHandover) ==
    IF i > Len(handles) \/ r.s.halted # "" THEN r
    ELSE ResolveHandles(
             ResolveHandle(r, ChannelObjectPair, handles[i], bIsHandover, Object,
                           PointedSet(r.s, ChannelObjectPair, handles[i], bIsHandover, Object)
                               \ {Object}),
             Object, ChannelObjectPair, handles, i + 1, bIsHandover)

\* The handles of one reverse-map entry in iteration order.
RECURSIVE SortedHandles(_)
SortedHandles(S) ==
    IF S = {} THEN << >>
    ELSE << CHOOSE x \in S : \A y \in S : x <= y >>
         \o SortedHandles(S \ {CHOOSE x \in S : \A y \in S : x <= y})

HandleOrder(HandleToUnresolved, ascending) ==
    IF ascending THEN SortedHandles(HandleToUnresolved)
    ELSE [i \in 1..Len(SortedHandles(HandleToUnresolved)) |->
             SortedHandles(HandleToUnresolved)[Len(SortedHandles(HandleToUnresolved)) + 1 - i]]

\* Faulty variant: the replicated-property list is sent without its final
\* zero.
SendResolvedUnterminated(r, ChannelObjectPair, bIsHandover, RepRefs) ==
    IF r.s.halted # "" \/ Len(r.PropertyHandles) = 0 THEN r.s
    ELSE IF bIsHandover
    THEN SendComponentUpdates(r.s, ChannelObjectPair[2], ChannelObjectPair[1],
                              nullptr, r.PropertyHandles,
                              EmptyMap, HandoverData[ChannelObjectPair[2]])
    ELSE SendComponentUpdates(r.s, ChannelObjectPair[2], ChannelObjectPair[1],
                              r.PropertyHandles, nullptr,
                              RepRefs[ChannelObjectPair[2]], EmptyMap)

\* `if (PropertyHandles.Num() > 0)` (SpatialSender.cpp:642-655).  RepRefs:
\* the current references of the flushed object's rep fields, read by the
\* factory.
SendResolved(r, ChannelObjectPair, bIsHandover, RepRefs) ==
    IF r.s.halted # "" \/ Len(r.PropertyHandles) = 0 THEN r.s
    ELSE IF bIsHandover
    THEN SendComponentUpdates(r.s, ChannelObjectPair[2], ChannelObjectPair[1],
                              nullptr, r.PropertyHandles,
                              EmptyMap, HandoverData[ChannelObjectPair[2]])
    ELSE SendComponentUpdates(r.s, ChannelObjectPair[2], ChannelObjectPair[1],
                              r.PropertyHandles \o << 0 >>, nullptr,
                              RepRefs[ChannelObjectPair[2]], EmptyMap)

\* A key added to the map being iterated may move its storage.
MarkDangling(before, s, bIsHandover) ==
    IF DOMAIN s.O[bIsHandover] \subseteq DOMAIN before.O[bIsHandover]
    THEN s ELSE [s EXCEPT !.dangling = TRUE]

\* One iteration of the loop over *ChannelToUnresolved (SpatialSender.cpp:
\* 602-656).
ResolveChannel(s, Object, HandleToUnresolved, ChannelObjectPair, bIsHandover, ascending, RepRefs) ==
    IF ~PairIsValid(ChannelObjectPair) THEN s
    ELSE MarkDangling(s,
             SendResolved(ResolveHandles([s |-> s, PropertyHandles |-> << >>], Object,
                                         ChannelObjectPair,
                                         HandleOrder(HandleToUnresolved, ascending),
                                         1, bIsHandover),
                          ChannelObjectPair, bIsHandover, RepRefs),
             bIsHandover)

\* The loop over *ChannelToUnresolved.  `pairs` is the order the map hands
\* out its entries, `ascending` the order of each entry's handles.
RECURSIVE ResolveChannels(_, _, _, _, _, _, _, _)
ResolveChannels(s, Object, ChannelToUnresolved, pairs, i, bIsHandover, ascending, RepRefs) ==
    IF i > Len(pairs) \/ s.halted # "" THEN s
    ELSE ResolveChannels(
             ResolveChannel(s, Object, ChannelToUnresolved[pairs[i]], pairs[i],
                            bIsHandover, ascending, RepRefs),
             Object, ChannelToUnresolved, pairs, i + 1, bIsHandover, ascending, RepRefs)

\* ObjectToUnresolved.Remove(Object) (SpatialSender.cpp:658).
RemoveResolved(s, Object, bIsHandover) ==
    IF s.halted # "" THEN s
    ELSE [s EXCEPT !.O[bIsHandover] = MapRemove(@, Object)]

\* Faulty variant: the target's entry is fetched with FindChecked, so a
\* target with nothing pending is an error.
ResolveOutgoingOperationsChecked(s, Object, bIsHandover, pairs, ascending, RepRefs) ==
    IF Object \notin DOMAIN s.O[bIsHandover]
    THEN Halt(s, "ResolveOutgoingOperations: FindChecked(Object)")
    ELSE RemoveResolved(
             ResolveChannels(s, Object, s.O[bIsHandover][Object], pairs, 1,
                             bIsHandover, ascending, RepRefs),
             Object, bIsHandover)

ResolveOutgoingOperations(s, Object, bIsHandover, pairs, ascending, RepRefs) ==
    IF Object \notin DOMAIN s.O[bIsHandover] THEN s
    ELSE RemoveResolved(
             ResolveChannels(s, Object, s.O[bIsHandover][Object], pairs, 1,
                             bIsHandover, ascending, RepRefs),
             Object, bIsHandover)

(***************************************************************************)
(* RPCs: USpatialSender::SendRPC, QueueOutgoingRPC, ResolveOutgoingRPCs    *)
(***************************************************************************)

\* RPCs are invoked on the targets and on "W", an object of a class without
\* type bindings.
FindClassInfoByClass(Object) == IF Object = "W" THEN "nullptr" ELSE "Info"

\* The RPC functions and their FRPCInfo::Type.
Functions == {"ServerRPC", "MulticastRPC"}
RPCTypeOf(Function) == IF Function = "MulticastRPC" THEN "RPC_NetMulticast" ELSE "RPC_Server"

\* CreateRPCCommandRequest / CreateMulticastUpdate: the unresolved object
\* they report, "none" when the payload could be built.  Parameters is the
\* sequence of objects the payload references, in serialisation order.
\* Faulty variant: the first referenced object is reported, resolved or not.
FirstReferenced(Parameters, i) ==
    IF i > Len(Parameters) THEN "none" ELSE Parameters[i]

RECURSIVE FirstUnresolved(_, _)
FirstUnresolved(Parameters, i) ==
    IF i > Len(Parameters) THEN "none"
    ELSE IF Parameters[i] \notin Resolved THEN Parameters[i]
    ELSE FirstUnresolved(Parameters, i + 1)

OutUnresolvedObject(TargetObject, Parameters) ==
    IF TargetObject \notin Resolved THEN TargetObject
    ELSE FirstUnresolved(Parameters, 1)

\* Faulty variant: a call is queued ahead of the calls already pending.
QueueOutgoingRPCFirst(s, UnresolvedObject, TargetObject, Function, Parameters) ==
    [s EXCEPT !.RPCs = MapAdd(@, UnresolvedObject,
        << [TargetObject |-> TargetObject, Function |-> Function,
            Parameters |-> Parameters] >> \o FindOrAdd(@, UnresolvedObject, << >>))]

QueueOutgoingRPC(s, UnresolvedObject, TargetObject, Function, Parameters) ==
    [s EXCEPT !.RPCs = MapAdd(@, UnresolvedObject,
        Append(FindOrAdd(@, UnresolvedObject, << >>),
               [TargetObject |-> TargetObject, Function |-> Function,
                Parameters |-> Parameters]))]

\* Faulty variant: a call that was queued is transmitted as well.
SendOrQueueRPCBoth(s, TargetObject, Function, Parameters, UnresolvedObject) ==
    [(IF UnresolvedObject = "none" THEN s
      ELSE QueueOutgoingRPC(s, UnresolvedObject, TargetObject, Function, Parameters))
        EXCEPT !.sent = Append(@,
              [op |-> IF RPCTypeOf(Function) = "RPC_NetMulticast"
                      THEN "SendMulticastUpdate" ELSE "SendCommandRequest",
               TargetObject |-> TargetObject, Function |-> Function,
               Parameters |-> Parameters])]

\* The switch on the RPC's type, once the payload was composed
\* (SpatialSender.cpp:303-351).
SendOrQueueRPC(s, TargetObject, Function, Parameters, UnresolvedObject) ==
    IF UnresolvedObject = "none"
    THEN [s EXCEPT !.sent = Append(@,
              [op |-> IF RPCTypeOf(Function) = "RPC_NetMulticast"
                      THEN "SendMulticastUpdate" ELSE "SendCommandRequest",
               TargetObject |-> TargetObject, Function |-> Function,
               Parameters |-> Parameters])]
    ELSE QueueOutgoingRPC(s, UnresolvedObject, TargetObject, Function, Parameters)

SendRPC(s, TargetObject, Function, Parameters) ==
    IF s.halted # "" THEN s
    ELSE IF FindClassInfoByClass(TargetObject) = "nullptr" THEN s
    ELSE SendOrQueueRPC(s, TargetObject, Function, Parameters,
                        OutUnresolvedObject(TargetObject, Parameters))

\* A key added to OutgoingRPCs may move the list being iterated.
MarkDanglingRPCs(before, s) ==
    IF DOMAIN s.RPCs \subseteq DOMAIN before.RPCs THEN s
    ELSE [s EXCEPT !.dangling = TRUE]

\* The loop over *RPCList (SpatialSender.cpp:666-672).
RECURSIVE ResolveRPCList(_, _, _)
ResolveRPCList(s, RPCList, i) ==
    IF i > Len(RPCList) \/ s.halted # "" THEN s
    ELSE ResolveRPCList(
             MarkDanglingRPCs(s, SendRPC(s, RPCList[i].TargetObject, RPCList[i].Function,
                                         RPCList[i].Parameters)),
             RPCList, i + 1)

\* Faulty variant: the flushed list stays in the map.
RemoveResolvedRPCsKept(s, Object) == s

\* OutgoingRPCs.Remove(Object) (SpatialSender.cpp:673).
RemoveResolvedRPCs(s, Object) ==
    IF s.halted # "" THEN s
    ELSE [s EXCEPT !.RPCs = MapRemove(@, Object)]

ResolveOutgoingRPCs(s, Object) ==
    IF Object \notin DOMAIN s.RPCs THEN s
    ELSE RemoveResolvedRPCs(ResolveRPCList(s, s.RPCs[Object], 1), Object)

(***************************************************************************)
(* USpatialActorChannel: initial change states and the handover differ     *)
(***************************************************************************)

\* Faulty variant: every dynamic array is given a count, nested ones too.
RECURSIVE InitialRepChangedCounted(_, _, _)
InitialRepChangedCounted(Cmds, CmdIdx, DynamicArrayDepth) ==
    IF CmdIdx >= Len(Cmds) THEN << >>
    ELSE LET Cmd == Cmds[CmdIdx + 1]
             count == IF Cmd.Type = "DynamicArray"
                      THEN << (Cmd.EndCmd - CmdIdx) - 2 >> ELSE << >>
         IN  << Cmd.RelativeHandle >> \o count
                 \o InitialRepChangedCounted(Cmds, CmdIdx + 1, DynamicArrayDepth)

\* The loop of CreateInitialRepChangeState (SpatialActorChannel.cpp:162-186),
\* CmdIdx counting from 0 as in the source.
RECURSIVE InitialRepChanged(_, _, _)
InitialRepChanged(Cmds, CmdIdx, DynamicArrayDepth) ==
    IF CmdIdx >= Len(Cmds) THEN << >>
    ELSE LET Cmd == Cmds[CmdIdx + 1]
             depth == IF Cmd.Type = "DynamicArray" THEN DynamicArrayDepth + 1
                      ELSE IF Cmd.Type = "Return" THEN DynamicArrayDepth - 1
                      ELSE DynamicArrayDepth
             count == IF Cmd.Type = "DynamicArray" /\ depth = 1
                      THEN << (Cmd.EndCmd - CmdIdx) - 2 >> ELSE << >>
         IN  << Cmd.RelativeHandle >> \o count \o InitialRepChanged(Cmds, CmdIdx + 1, depth)

CreateInitialRepChangeState(Object) == InitialRepChanged(CmdsOf(Object), 0, 0)

\* ClassInfo->HandoverProperties, in order.
HandoverProperties(Object) == SortedHandles(HandoverHandlesOf(Object))

CreateInitialHandoverChangeState(Object) == HandoverProperties(Object)

\* InitializeHandoverShadowData: every property default-initialised.
InitializeHandoverShadowData(Object) == [h \in HandoverHandlesOf(Object) |-> {}]

\* GetHandoverChangeList: compare and assign, property by property.
RECURSIVE HandoverChangedFrom(_, _, _, _, _)
HandoverChangedFrom(props, i, ShadowData, Data, creating) ==
    IF i > Len(props) THEN [HandoverChanged |-> << >>, ShadowData |-> ShadowData]
    ELSE LET Handle == props[i]
             differs == creating \/ ShadowData[Handle] # Data[Handle]
             rest == HandoverChangedFrom(props, i + 1,
                         IF differs THEN [ShadowData EXCEPT ![Handle] = Data[Handle]]
                         ELSE ShadowData,
                         Data, creating)
         IN  [HandoverChanged |-> (IF differs THEN << Handle >> ELSE << >>) \o rest.HandoverChanged,
              ShadowData |-> rest.ShadowData]

\* Faulty variant: compare without assigning.
GetHandoverChangeListCompared(ShadowData, Object, creating) ==
    [HandoverChangedFrom(HandoverProperties(Object), 1, ShadowData, HandoverData[Object], creating)
        EXCEPT !.ShadowData = ShadowData]

GetHandoverChangeList(ShadowData, Object, creating) ==
    HandoverChangedFrom(HandoverProperties(Object), 1, ShadowData, HandoverData[Object], creating)

(***************************************************************************)
(* USpatialSender: entity creation requests                                *)
(***************************************************************************)

\* The two loops over the unresolved maps of one object
\* (SpatialSender.cpp:109-117 and 163-171).
RECURSIVE QueueAll(_, _, _, _, _)
QueueAll(s, ChannelObjectPair, UnresolvedObjectsMap, todo, bIsHandover) ==
    IF todo = {} THEN s
    ELSE LET Handle == CHOOSE h \in todo : TRUE
         IN  QueueAll(QueueOutgoingUpdate(s, ChannelObjectPair, Handle,
                                          UnresolvedObjectsMap[Handle], bIsHandover),
                      ChannelObjectPair, UnresolvedObjectsMap, todo \ {Handle}, bIsHandover)

QueueBoth(s, ChannelObjectPair, f) ==
    QueueAll(QueueAll(s, ChannelObjectPair, f.UnresolvedObjectsMap,
                      DOMAIN f.UnresolvedObjectsMap, FALSE),
             ChannelObjectPair, f.HandoverUnresolvedObjectsMap,
             DOMAIN f.HandoverUnresolvedObjectsMap, TRUE)

QueueInitial(s, Channel, Object, RepRefs) ==
    QueueBoth(s, <<Channel, Object>>,
              CreateComponentUpdates(Object, CreateInitialRepChangeState(Object),
                                     CreateInitialHandoverChangeState(Object),
                                     RepRefs[Object], HandoverData[Object]))

RECURSIVE QueueInitialSubobjects(_, _, _, _)
QueueInitialSubobjects(s, Channel, todo, RepRefs) ==
    IF todo = {} THEN s
    ELSE LET Subobject == CHOOSE o \in todo : TRUE
         IN  QueueInitialSubobjects(QueueInitial(s, Channel, Subobject, RepRefs),
                                    Channel, todo \ {Subobject}, RepRefs)

\* Faulty variant: the handover part lists only the fields that differ
\* from the shadow data.
InitialDataDiffed(Object, RepRefs) ==
    [RepChanges |-> CreateInitialRepChangeState(Object),
     HandoverChanges |->
         IF Object \in DOMAIN HandoverShadowDataMap
         THEN SortedHandles({h \in HandoverHandlesOf(Object) :
                                HandoverShadowDataMap[Object][h] # HandoverData[Object][h]})
         ELSE << >>,
     Rep |-> RepRefs[Object], Handover |-> HandoverData[Object]]

\* What a create-entity request carries of an object: the change state it
\* was composed from and the field values read.
InitialData(Object, RepRefs) ==
    [RepChanges |-> CreateInitialRepChangeState(Object),
     HandoverChanges |-> CreateInitialHandoverChangeState(Object),
     Rep |-> RepRefs[Object], Handover |-> HandoverData[Object]]

\* What CreateEntity hands to the connection (SpatialSender.cpp:179-180).
CreateEntityRequest(Channel, WorkingSetParentId, RepRefs) ==
    [op |-> "SendCreateEntityRequest", Channel |-> Channel,
     EntityId |-> EntityId[Channel], WorkingSetParentId |-> WorkingSetParentId,
     Data |-> [o \in ObjectsOf(Channel) |-> InitialData(o, RepRefs)]]

AddPendingActorRequest(s, Channel, kind) ==
    [s EXCEPT !.Requests[Channel][kind] = @ + 1]

\* USpatialSender::CreateEntity and SendCreateEntityRequest.  RepRefs gives
\* the references of the rep fields of the actor and its subobjects.
\* Connection->SendCreateEntityRequest and Receiver->AddPendingActorRequest
\* (SpatialSender.cpp:179-183 and 370-374).
SendCreate(s, Channel, WorkingSetParentId, RepRefs) ==
    IF s.halted # "" THEN s
    ELSE AddPendingActorRequest(
             [s EXCEPT !.sent = Append(@, CreateEntityRequest(Channel, WorkingSetParentId,
                                                              RepRefs))],
             Channel, "create")

SendCreateEntityRequest(s, Channel, WorkingSetParentId, RepRefs) ==
    SendCreate(QueueInitialSubobjects(QueueInitial(s, Channel, ActorOf(Channel), RepRefs),
                                      Channel, SubobjectsOf(Channel), RepRefs),
               Channel, WorkingSetParentId, RepRefs)

\* Faulty variant: the request is issued twice.
SendReserveEntityIdRequestTwice(s, Channel) ==
    AddPendingActorRequest(
        AddPendingActorRequest(
            [s EXCEPT !.sent = @ \o << [op |-> "SendReserveEntityIdRequest", Channel |-> Channel],
                                       [op |-> "SendReserveEntityIdRequest", Channel |-> Channel] >>],
            Channel, "reserve"),
        Channel, "reserve")

\* USpatialSender::SendReserveEntityIdRequest.
SendReserveEntityIdRequest(s, Channel) ==
    AddPendingActorRequest(
        [s EXCEPT !.sent = Append(@, [op |-> "SendReserveEntityIdRequest", Channel |-> Channel])],
        Channel, "reserve")

(***************************************************************************)
(* The change-list ledgers: FRepState of the channel's replicator, the     *)
(* shared FRepChangelistState, and UpdateChangelistHistory                 *)
(* (SpatialActorChannel.cpp:28-56, 276-291, 333-343, 396-418)              *)
(***************************************************************************)

\* The capacity of a ledger's ring (FRepState::MAX_CHANGE_HISTORY).
MAX_CHANGE_HISTORY == 2

\* Change lists the shared ledger of one object is given in one run.
MaxChangelists == 3

NewRepState == [HistoryStart |-> 0, HistoryEnd |-> 0, LastChangelistIndex |-> 0,
                ChangeHistory |-> [i \in 0..(MAX_CHANGE_HISTORY - 1) |-> << >>]]

\* ChangelistMgr->Update: the engine compares the object with its shadow
\* state and appends the change list it finds, when there is one.
UpdateChangelistMgr(cs, Changed) ==
    IF Len(Changed) = 0 THEN cs
    ELSE [cs EXCEPT !.ChangeHistory[cs.HistoryEnd % MAX_CHANGE_HISTORY] = Changed,
                    !.HistoryEnd = @ + 1]

\* FRepLayout::MergeChangeList: the union of two framed change lists, root
\* handle by root handle, an array's changed elements united.
BlockLen(Object, Changed, i) ==
    IF Changed[i] \in ArrayHandlesOf(Object) THEN Changed[i + 1] + 3 ELSE 1

RECURSIVE BlockOf(_, _, _, _)
BlockOf(Object, Changed, i, Handle) ==
    IF i > Len(Changed) \/ Changed[i] = 0 THEN << >>
    ELSE IF Changed[i] = Handle
    THEN SubSeq(Changed, i, i + BlockLen(Object, Changed, i) - 1)
    ELSE BlockOf(Object, Changed, i + BlockLen(Object, Changed, i), Handle)

ElementsOf(Block) == IF Len(Block) < 2 THEN {} ELSE {Block[j] : j \in 3..(2 + Block[2])}

MergeBlocks(Object, Handle, Elements) ==
    IF Handle \in ArrayHandlesOf(Object)
    THEN << Handle, Cardinality(Elements) >> \o SortedHandles(Elements) \o << 0 >>
    ELSE << Handle >>

RECURSIVE MergeHandles(_, _, _, _)
MergeHandles(Object, Dirty1, Dirty2, Handles) ==
    IF Handles = << >> THEN << >>
    ELSE MergeBlocks(Object, Head(Handles),
                     ElementsOf(BlockOf(Object, Dirty1, 1, Head(Handles)))
                         \cup ElementsOf(BlockOf(Object, Dirty2, 1, Head(Handles))))
         \o MergeHandles(Object, Dirty1, Dirty2, Tail(Handles))

MergeChangeList(Object, Dirty1, Dirty2) ==
    IF RootHandles(Object, Dirty1) \cup RootHandles(Object, Dirty2) = {} THEN << >>
    ELSE MergeHandles(Object, Dirty1, Dirty2,
                      SortedHandles(RootHandles(Object, Dirty1)
                                        \cup RootHandles(Object, Dirty2))) \o << 0 >>

\* Faulty variant: each new change list is put in front of the accumulated
\* one instead of being merged with it.
RECURSIVE MergeSinceAppending(_, _, _, _)
MergeSinceAppending(Object, cs, i, RepChanged) ==
    IF i >= cs.HistoryEnd THEN RepChanged
    ELSE MergeSinceAppending(Object, cs, i + 1,
                             cs.ChangeHistory[i % MAX_CHANGE_HISTORY] \o RepChanged)

\* The loop that gathers the change lists that are new since the channel
\* last looked (SpatialActorChannel.cpp:284-291, 402-409).
RECURSIVE MergeSince(_, _, _, _)
MergeSince(Object, cs, i, RepChanged) ==
    IF i >= cs.HistoryEnd THEN RepChanged
    ELSE MergeSince(Object, cs, i + 1,
                    MergeChangeList(Object, cs.ChangeHistory[i % MAX_CHANGE_HISTORY],
                                    RepChanged))

\* RepChanged is the list in the slot at HistoryEnd of the channel's own
\* ledger, and the merge accumulates into it.
GatherChanges(Object, rs, cs) ==
    MergeSince(Object, cs, rs.LastChangelistIndex,
               rs.ChangeHistory[rs.HistoryEnd % MAX_CHANGE_HISTORY])

\* The loop of UpdateChangelistHistory (SpatialActorChannel.cpp:35-47).
RECURSIVE RetireHistory(_, _)
RetireHistory(h, i) ==
    IF i >= h.RepState.HistoryEnd \/ h.halted # "" THEN h
    ELSE IF Len(h.RepState.ChangeHistory[i % MAX_CHANGE_HISTORY]) = 0
    THEN [h EXCEPT !.halted = "check(HistoryItem.Changed.Num() > 0)"]
    ELSE RetireHistory([h EXCEPT !.RepState.ChangeHistory[i % MAX_CHANGE_HISTORY] = << >>,
                                 !.RepState.HistoryStart = @ + 1],
                       i + 1)

\* Faulty variant: the markers are left where the loop put them.
NormalizeHistoryTiled(h) == h

\* The removal of tiling from the markers (SpatialActorChannel.cpp:49-55).
NormalizeHistory(h) ==
    IF h.halted # "" THEN h
    ELSE IF h.RepState.HistoryEnd - h.RepState.HistoryStart > MAX_CHANGE_HISTORY
    THEN [h EXCEPT !.halted = "check(NewHistoryCount <= FRepState::MAX_CHANGE_HISTORY)"]
    ELSE [h EXCEPT !.RepState.HistoryStart = @ % MAX_CHANGE_HISTORY,
                   !.RepState.HistoryEnd =
                       (h.RepState.HistoryStart % MAX_CHANGE_HISTORY)
                           + (h.RepState.HistoryEnd - h.RepState.HistoryStart)]

\* Faulty variant: nothing is checked and nothing is retired.
UpdateChangelistHistoryUnretired(rs) == [RepState |-> rs, halted |-> ""]

UpdateChangelistHistory(rs) ==
    IF rs.HistoryEnd < rs.HistoryStart
    THEN [RepState |-> rs, halted |-> "check(RepState->HistoryEnd >= RepState->HistoryStart)"]
    ELSE IF rs.HistoryEnd - rs.HistoryStart >= MAX_CHANGE_HISTORY
    THEN [RepState |-> rs, halted |-> "check(HistoryCount < FRepState::MAX_CHANGE_HISTORY)"]
    ELSE NormalizeHistory(RetireHistory([RepState |-> rs, halted |-> ""], rs.HistoryStart))

\* HistoryEnd++ when something changed, UpdateChangelistHistory, and the
\* channel's cursor moved to the end of the shared ledger
\* (SpatialActorChannel.cpp:333-343, 411-418).
\* Faulty variant: HistoryEnd is advanced whether or not anything changed.
CloseHistoryAlways(rs, cs, RepChanged) ==
    LET h == UpdateChangelistHistory(
                 [rs EXCEPT !.ChangeHistory[rs.HistoryEnd % MAX_CHANGE_HISTORY] = RepChanged,
                            !.HistoryEnd = @ + 1])
    IN  IF h.halted # "" THEN h
        ELSE [h EXCEPT !.RepState.LastChangelistIndex = cs.HistoryEnd]

CloseHistory(rs, cs, RepChanged) ==
    LET h == UpdateChangelistHistory(
                 IF Len(RepChanged) > 0
                 THEN [rs EXCEPT !.ChangeHistory[rs.HistoryEnd % MAX_CHANGE_HISTORY] =
                                     RepChanged,
                                 !.HistoryEnd = @ + 1]
                 ELSE rs)
    IN  IF h.halted # "" THEN h
        ELSE [h EXCEPT !.RepState.LastChangelistIndex = cs.HistoryEnd]

\* Faulty variant: the cycle also empties the shared ledger's entries.
ReplicateHistoryRetiring(Object, rs, cs, Changed) ==
    LET Updated == UpdateChangelistMgr(cs, Changed)
        RepChanged == GatherChanges(Object, rs, Updated)
    IN  [ChangelistState |-> [Updated EXCEPT !.ChangeHistory =
                                 [i \in DOMAIN Updated.ChangeHistory |-> << >>]],
         RepChanged |-> RepChanged,
         History |-> CloseHistory(rs, Updated, RepChanged)]

\* One object's part of a cycle on its ledgers: the shared ledger after
\* Update, the merged change list, and the channel's ledger after the cycle.
ReplicateHistory(Object, rs, cs, Changed) ==
    LET Updated == UpdateChangelistMgr(cs, Changed)
        RepChanged == GatherChanges(Object, rs, Updated)
    IN  [ChangelistState |-> Updated,
         RepChanged |-> RepChanged,
         History |-> CloseHistory(rs, Updated, RepChanged)]

(***************************************************************************)
(* Bounds and input sets.                                                  *)
(***************************************************************************)

\* Failure responses the server gives in one run.
MaxFailures == 2

\* RPCs queued at any one time.
MaxQueuedRPCs == 2

\* The entity id the server reserves for a channel's actor.
ReservedEntityId(c) == 1

\* The inputs a specification draws from.  RepChangeLists: the framed rep
\* change lists the engine can hand a cycle for an object (an array handle
\* is followed by the number of changed element handles, those handles and
\* a zero; a zero ends the list).  PropertyRefs: the object sets a plain rep
\* property may reference when a cycle reads it, ArrayRefs those a dynamic
\* array may, FlushRefSets those either may when a flush reads it.
\* HandoverValues: the values a handover field takes, each named by the
\* objects it references.  ParameterLists: the objects an RPC's parameters
\* reference, in order.
ResolverInputs ==
    [RepChangeLists |-> [o \in AllObjects |->
                            IF o = "A1"
                            THEN {<< >>, <<1, 0>>, <<2, 1, 1, 0, 0>>, <<1, 2, 1, 1, 0, 0>>}
                            ELSE {<< >>, <<1, 0>>}],
     PropertyRefs |-> {{}, {"X"}},
     ArrayRefs |-> {{}, {"X"}, {"X", "Y"}},
     FlushRefSets |-> {{}, {"Y"}},
     HandoverValues |-> {{}, {"X"}},
     ParameterLists |-> {<< >>}]

LifecycleInputs ==
    [RepChangeLists |-> [o \in AllObjects |->
                            IF o = "A1" THEN {<< >>, <<1, 0>>} ELSE {<< >>, <<1, 0>>}],
     PropertyRefs |-> {{}, {"X"}},
     ArrayRefs |-> {{}, {"X"}},
     FlushRefSets |-> {{}, {"X"}},
     HandoverValues |-> {{}, {"X"}},
     ParameterLists |-> {<< >>}]

CreationInputs ==
    [RepChangeLists |-> [o \in AllObjects |->
                            IF o = "A1" THEN {<< >>, <<1, 0>>} ELSE {<< >>}],
     PropertyRefs |-> {{}, {"X"}},
     ArrayRefs |-> {{}},
     FlushRefSets |-> {{}},
     HandoverValues |-> {{}, {"X"}},
     ParameterLists |-> {<< >>}]

LedgerInputs ==
    [RepChangeLists |-> [o \in AllObjects |->
                            IF o = "A1" THEN {<< >>, <<1, 0>>, <<2, 1, 1, 0, 0>>}
                            ELSE {<< >>, <<1, 0>>}],
     PropertyRefs |-> {{}},
     ArrayRefs |-> {{}},
     FlushRefSets |-> {{}},
     HandoverValues |-> {{}},
     ParameterLists |-> {<< >>}]

RPCInputs ==
    [RepChangeLists |-> [o \in AllObjects |->
                            IF o = "A1" THEN {<< >>, <<1, 0>>} ELSE {<< >>}],
     PropertyRefs |-> {{}, {"X"}},
     ArrayRefs |-> {{}, {"X"}},
     FlushRefSets |-> {{}},
     HandoverValues |-> {{}},
     ParameterLists |-> {<< >>, <<"X">>, <<"Y", "X">>}]

(***************************************************************************)
(* Init: the state after construction (SpatialActorChannel.cpp:59-67), the *)
(* sender's containers empty, nothing resolved.  The entity registry may   *)
(* already know the actor (it was received from another worker).           *)
(***************************************************************************)
\* The classes an actor may be of: a plain replicated actor, with or
\* without the singleton flag and a stable name, a class that is grouped
\* into working sets, and a class without type bindings.
PlainClass == [Name |-> "PlainActor", Singleton |-> FALSE, Stable |-> FALSE]
ActorClasses ==
    [Name : {"PlainActor"}, Singleton : BOOLEAN, Stable : BOOLEAN]
    \cup {[Name |-> "Controller", Singleton |-> FALSE, Stable |-> FALSE],
          [Name |-> "Unsupported", Singleton |-> FALSE, Stable |-> FALSE]}

\* The sender and the channels after construction (SpatialActorChannel.cpp:
\* 59-67), whatever the actor's class.
Constructed ==
    /\ RepPropertyToUnresolved = EmptyMap
    /\ RepObjectToUnresolved = EmptyMap
    /\ HandoverPropertyToUnresolved = EmptyMap
    /\ HandoverObjectToUnresolved = EmptyMap
    /\ OutgoingRPCs = EmptyMap
    /\ Actor = [c \in Channels |-> "null"]
    /\ bFirstTick = [c \in Channels |-> TRUE]
    \* read only after the first tick that finds the channel usable set it
    /\ bNetOwned = [c \in Channels |-> FALSE]
    /\ EntityId = [c \in Channels |-> 0]
    /\ bCreatingNewEntity = [c \in Channels |-> FALSE]
    /\ HandoverShadowDataMap = EmptyMap
    /\ WorkingSetId = [c \in Channels |-> -1]
    /\ WorkingSets = EmptyMap
    /\ Resolved = {}
    /\ Invalid = {}
    /\ HandoverData = [o \in AllObjects \cup LateSubobjects |->
                           [h \in HandoverHandlesOf(o) |-> {}]]
    /\ HandoverSubobjects = [a \in {ActorOf(c) : c \in Channels} |-> {}]
    /\ EntityRegistry \in {EmptyMap, [a \in {"A1"} |-> 1]}
    /\ ActorChannels = EmptyMap
    /\ PendingActorRequests = [c \in Channels |-> [reserve |-> 0, create |-> 0]]
    /\ RepState = [o \in AllObjects |-> NewRepState]
    /\ ChangelistState = [o \in AllObjects |->
                             [HistoryEnd |-> 0,
                              ChangeHistory |-> [i \in 0..(MAX_CHANGE_HISTORY - 1) |-> << >>]]]
    /\ PeerRepState = [o \in AllObjects |-> NewRepState]
    /\ Sent = << >>
    /\ Resets = {}
    /\ LastCall = [op |-> "construct"]
    /\ Halted = ""
    /\ Failures = 0

Init ==
    /\ Constructed
    /\ ActorClass = [a \in {ActorOf(c) : c \in Channels} |-> PlainClass]
    /\ RepLayout = CmdsOf("A1")
    /\ IsServer = TRUE

\* Store the sender's containers and what the handler sent.  When the
\* handler iterated a container whose storage may have moved, the build
\* decides whether it runs on or faults.
Commit(s) ==
    /\ RepPropertyToUnresolved' = s.P[FALSE]
    /\ HandoverPropertyToUnresolved' = s.P[TRUE]
    /\ RepObjectToUnresolved' = s.O[FALSE]
    /\ HandoverObjectToUnresolved' = s.O[TRUE]
    /\ OutgoingRPCs' = s.RPCs
    /\ PendingActorRequests' = s.Requests
    /\ Sent' = s.sent
    /\ Resets' = s.resets
    /\ \E fault \in (IF s.dangling /\ s.halted = "" THEN BOOLEAN ELSE {FALSE}) :
           Halted' = IF fault THEN "read through a dangling container reference"
                     ELSE s.halted

Running == Halted = ""

(***************************************************************************)
(* USpatialActorChannel::SetChannelActor                                   *)
(***************************************************************************)
\* USpatialTypebindingManager::GetHandoverSubobjects (outside the sources
\* shown here): the subobjects of the actor that hold handover properties.
GetHandoverSubobjects(a) == HandoverSubobjects[a]

SetChannelActor(c) ==
    LET InActor == ActorOf(c)
        shadowed == {InActor} \cup GetHandoverSubobjects(InActor)
        id == IF InActor \in DOMAIN EntityRegistry THEN EntityRegistry[InActor] ELSE 0
        s == IF id = 0 THEN SendReserveEntityIdRequest(SenderState, c) ELSE SenderState
    IN  /\ Running
        /\ c \notin Invalid /\ InActor \notin Invalid
        /\ Actor' = [Actor EXCEPT ![c] = InActor]
        /\ IF ActorClass[InActor].Name = "Unsupported"
           THEN /\ Commit(SenderState)
                /\ UNCHANGED <<EntityId, bCreatingNewEntity, HandoverShadowDataMap, ActorChannels>>
           ELSE IF shadowed \cap DOMAIN HandoverShadowDataMap # {}
           THEN /\ Commit(Halt(SenderState, "SetChannelActor: check(!HandoverShadowDataMap.Contains)"))
                /\ UNCHANGED <<EntityId, bCreatingNewEntity, HandoverShadowDataMap, ActorChannels>>
           ELSE /\ HandoverShadowDataMap' =
                       [o \in DOMAIN HandoverShadowDataMap \cup shadowed |->
                           IF o \in shadowed THEN InitializeHandoverShadowData(o)
                           ELSE HandoverShadowDataMap[o]]
                /\ EntityId' = [EntityId EXCEPT ![c] = id]
                /\ bCreatingNewEntity' = [bCreatingNewEntity EXCEPT ![c] = (id = 0)]
                /\ ActorChannels' = IF id = 0 THEN ActorChannels ELSE MapAdd(ActorChannels, id, c)
                /\ Commit(s)
        /\ LastCall' = [op |-> "SetChannelActor", Channel |-> c]
        /\ UNCHANGED <<WorkingSetId, WorkingSets, Resolved, Invalid, HandoverData,
                       HandoverSubobjects, RepLayout,
                       bFirstTick, bNetOwned, IsServer, EntityRegistry, Failures, ActorClass, RepState,
                       ChangelistState, PeerRepState>>

(***************************************************************************)
(* USpatialActorChannel::ReplicateActor and ReplicateSubobject             *)
(***************************************************************************)

\* IsAValidWorkingSet on the class name of a channel's actor.
IsAValidWorkingSet(c) ==
    ActorClass[ActorOf(c)].Name \in {"ProjectCharacter", "Controller", "PlayerState"}

\* The size at which a working set is created (SpatialActorChannel.cpp:315).
WorkingSetSize == 3

\* UWorkingSetManager (outside the sources shown here): RegisterNewWorkingSet
\* hands out the next id, EnqueueForWorkingSet appends the channel, and
\* CreateWorkingSet creates the group entity with its members.
RegisterNewWorkingSet == Cardinality(DOMAIN WorkingSets)
EnqueueForWorkingSet(sets, c, id) == MapAdd(sets, id, Append(FindOrAdd(sets, id, << >>), c))
CreateWorkingSet(s, sets, id) ==
    [s EXCEPT !.sent = Append(@, [op |-> "CreateWorkingSet", WorkingSetId |-> id,
                                  Members |-> sets[id]])]

\* One object's input to a cycle: the merged change list its ledger yields
\* and the references of the fields the factory will read.
FieldRefs(R, o, handles) ==
    {r \in [handles -> R.PropertyRefs \cup R.ArrayRefs] :
        \A h \in handles : r[h] \in (IF h \in ArrayHandlesOf(o) THEN R.ArrayRefs
                                    ELSE R.PropertyRefs)}

CycleInputs(o, creating, R) ==
    UNION {{[RepChanged |-> l, RepRefs |-> r] :
               r \in FieldRefs(R, o, IF creating THEN RepHandlesOf(o) ELSE RootHandles(o, l))} :
           l \in R.RepChangeLists[o]}

ReplicateSubobject(s, c, Object, in) ==
    IF Len(in.RepChanged) > 0
    THEN SendComponentUpdates(s, Object, c, in.RepChanged, nullptr, in.RepRefs, EmptyMap)
    ELSE s

RECURSIVE ReplicateSubobjects(_, _, _, _)
ReplicateSubobjects(s, c, todo, SubIn) ==
    IF todo = {} THEN s
    ELSE LET Object == CHOOSE o \in todo : TRUE
         IN  ReplicateSubobjects(ReplicateSubobject(s, c, Object, SubIn[Object]),
                                 c, todo \ {Object}, SubIn)

\* Faulty variant: an update is sent in every cycle, changed or not.
ReplicateChangesAlways(s, c, creating, changed, grouped, sets, id, ActorIn, HandoverChangeState, RepRefs) ==
    IF creating /\ grouped
    THEN (IF Len(sets[id]) = WorkingSetSize THEN CreateWorkingSet(s, sets, id) ELSE s)
    ELSE IF creating
    THEN SendCreateEntityRequest(s, c, "nullptr", RepRefs)
    ELSE SendComponentUpdates(s, Actor[c], c, ActorIn.RepChanged, HandoverChangeState,
                              ActorIn.RepRefs, HandoverData[Actor[c]])

\* Faulty variant: the first cycle of a new entity sends a component update
\* and no create request.
ReplicateChangesNoCreate(s, c, creating, changed, grouped, sets, id, ActorIn, HandoverChangeState, RepRefs) ==
    IF ~changed THEN s
    ELSE IF grouped
    THEN (IF Len(sets[id]) = WorkingSetSize THEN CreateWorkingSet(s, sets, id) ELSE s)
    ELSE SendComponentUpdates(s, Actor[c], c, ActorIn.RepChanged, HandoverChangeState,
                              ActorIn.RepRefs, HandoverData[Actor[c]])

\* Faulty variant: the working set is created at three members or more.
ReplicateChangesAtLeast(s, c, creating, changed, grouped, sets, id, ActorIn, HandoverChangeState, RepRefs) ==
    IF ~changed THEN s
    ELSE IF grouped
    THEN (IF Len(sets[id]) >= WorkingSetSize THEN CreateWorkingSet(s, sets, id) ELSE s)
    ELSE IF creating
    THEN SendCreateEntityRequest(s, c, "nullptr", RepRefs)
    ELSE SendComponentUpdates(s, Actor[c], c, ActorIn.RepChanged, HandoverChangeState,
                              ActorIn.RepRefs, HandoverData[Actor[c]])

\* The branch taken when the actor has something to send (SpatialActorChannel
\* .cpp:299-331): enqueue for a working set, create the entity, or update it.
ReplicateChanges(s, c, creating, changed, grouped, sets, id, ActorIn, HandoverChangeState, RepRefs) ==
    IF ~changed THEN s
    ELSE IF grouped
    THEN (IF Len(sets[id]) = WorkingSetSize THEN CreateWorkingSet(s, sets, id) ELSE s)
    ELSE IF creating
    THEN SendCreateEntityRequest(s, c, "nullptr", RepRefs)
    ELSE SendComponentUpdates(s, Actor[c], c, ActorIn.RepChanged, HandoverChangeState,
                              ActorIn.RepRefs, HandoverData[Actor[c]])

\* The loop over the actor's replicated subobjects (SpatialActorChannel.cpp:
\* 351-358), skipped while the entity is being created.
ReplicateComponents(s, c, creating, SubIn) ==
    IF creating THEN s
    ELSE ReplicateSubobjects(s, c, SubobjectsOf(c) \ Invalid, SubIn)

\* Faulty variant: a subobject without shadow data is skipped.
RECURSIVE ReplicateHandoverSubobjectsFound(_, _, _)
ReplicateHandoverSubobjectsFound(st, c, todo) ==
    IF todo = {} \/ st.s.halted # "" THEN st
    ELSE LET Subobject == CHOOSE o \in todo : TRUE
         IN  IF Subobject \notin DOMAIN st.ShadowData
             THEN ReplicateHandoverSubobjectsFound(st, c, todo \ {Subobject})
             ELSE ReplicateHandoverSubobjectsFound(
                      [s |-> IF Len(GetHandoverChangeList(st.ShadowData[Subobject], Subobject,
                                                          FALSE).HandoverChanged) > 0
                             THEN SendComponentUpdates(st.s, Subobject, c, nullptr,
                                      GetHandoverChangeList(st.ShadowData[Subobject], Subobject,
                                                            FALSE).HandoverChanged,
                                      EmptyMap, HandoverData[Subobject])
                             ELSE st.s,
                       ShadowData |-> [st.ShadowData EXCEPT ![Subobject] =
                                          GetHandoverChangeList(@, Subobject, FALSE).ShadowData]],
                      c, todo \ {Subobject})

\* The loop over the actor's handover subobjects (SpatialActorChannel.cpp:
\* 360-370): look the shadow data up, compare and assign, send what changed.
RECURSIVE ReplicateHandoverSubobjects(_, _, _)
ReplicateHandoverSubobjects(st, c, todo) ==
    IF todo = {} \/ st.s.halted # "" THEN st
    ELSE LET Subobject == CHOOSE o \in todo : TRUE
         IN  IF Subobject \notin DOMAIN st.ShadowData
             THEN [st EXCEPT !.s = Halt(@, "HandoverShadowDataMap.FindChecked")]
             ELSE ReplicateHandoverSubobjects(
                      [s |-> IF Len(GetHandoverChangeList(st.ShadowData[Subobject], Subobject,
                                                          FALSE).HandoverChanged) > 0
                             THEN SendComponentUpdates(st.s, Subobject, c, nullptr,
                                      GetHandoverChangeList(st.ShadowData[Subobject], Subobject,
                                                            FALSE).HandoverChanged,
                                      EmptyMap, HandoverData[Subobject])
                             ELSE st.s,
                       ShadowData |-> [st.ShadowData EXCEPT ![Subobject] =
                                          GetHandoverChangeList(@, Subobject, FALSE).ShadowData]],
                      c, todo \ {Subobject})

\* What ReplicateSubobject returns: `RepChanged.Num() > 0` is read on return
\* (SpatialActorChannel.cpp:423), RepChanged being a reference to the slot
\* at HistoryEnd of the channel's ledger as the call found it (lines
\* 404-406), after UpdateChangelistHistory has run over the ledger.
ReplicateSubobjectReturn(before, after) ==
    Len(after.ChangeHistory[before.HistoryEnd % MAX_CHANGE_HISTORY]) > 0

ReplicateActor(c, ActorIn, SubIn, History) ==
    LET actor == Actor[c]
        creating == bCreatingNewEntity[c]
        d == GetHandoverChangeList(HandoverShadowDataMap[actor], actor, creating)
        RepRefs == [o \in ObjectsOf(c) |-> IF o = actor THEN ActorIn.RepRefs
                                           ELSE SubIn[o].RepRefs]
        changed == creating \/ Len(ActorIn.RepChanged) > 0 \/ Len(d.HandoverChanged) > 0
        grouped == creating /\ IsAValidWorkingSet(c)
        id == IF WorkingSetId[c] < 0 THEN RegisterNewWorkingSet ELSE WorkingSetId[c]
        sets == IF grouped THEN EnqueueForWorkingSet(WorkingSets, c, id) ELSE WorkingSets
        wrote == changed \/ (~creating /\ \E o \in SubobjectsOf(c) \ Invalid :
                                  ReplicateSubobjectReturn(RepState[o], History.RepState[o]))
        st == ReplicateHandoverSubobjects(
                  [s |-> Halt(ReplicateComponents(
                                  ReplicateChanges(SenderState, c, creating, changed, grouped,
                                                   sets, id, ActorIn, d.HandoverChanged, RepRefs),
                                  c, creating, SubIn),
                              History.halted),
                   ShadowData |-> [HandoverShadowDataMap EXCEPT ![actor] = d.ShadowData]],
                  c, IF creating THEN {} ELSE GetHandoverSubobjects(actor))
    IN  /\ Running
        /\ actor # "null" /\ c \notin Invalid /\ actor \notin Invalid
        /\ EntityId[c] # 0      \* IsReadyForReplication
        /\ WorkingSetId' = IF grouped THEN [WorkingSetId EXCEPT ![c] = id] ELSE WorkingSetId
        /\ WorkingSets' = sets
        /\ HandoverShadowDataMap' = st.ShadowData
        /\ bCreatingNewEntity' = [bCreatingNewEntity EXCEPT ![c] = FALSE]
        /\ Commit(st.s)
        /\ RepState' = History.RepState
        /\ ChangelistState' = History.ChangelistState
        /\ LastCall' = [op |-> "ReplicateActor", Channel |-> c, creating |-> creating,
                        result |-> wrote, RepChanged |-> ActorIn.RepChanged,
                        HandoverChangeState |-> d.HandoverChanged]
        /\ UNCHANGED <<Actor, EntityId, Resolved, Invalid, HandoverData, HandoverSubobjects, RepLayout,
                       bFirstTick, bNetOwned, IsServer,
                       EntityRegistry, ActorChannels, Failures, ActorClass, PeerRepState>>

(***************************************************************************)
(* USpatialActorChannel: RegisterEntityId and the two response handlers    *)
(***************************************************************************)

\* Faulty variant: only the null pointer is checked for.
ActorIsNull(c) == Actor[c] = "null"

\* Actor == nullptr || Actor->IsPendingKill()
ActorIsInvalid(c) == Actor[c] = "null" \/ Actor[c] \in Invalid

\* The receiver hands a response to the channel that made the request and
\* forgets the request.
TakeRequest(s, c, kind) == [s EXCEPT !.Requests[c][kind] = @ - 1]

\* Faulty variant: the singleton tracker is not told of the entity id.
RegisterEntityIdUntracked(s, actor, id) ==
    [s EXCEPT !.sent = @ \o
        (IF ActorClass[actor].Stable
         THEN << [op |-> "ResolveEntityActor", Actor |-> actor, EntityId |-> id] >>
         ELSE << >>)]

\* The collaborators RegisterEntityId notifies besides the registry and
\* the net driver (SpatialActorChannel.cpp:558-569).
RegisterEntityId(s, actor, id) ==
    [s EXCEPT !.sent = @ \o
        (IF ActorClass[actor].Singleton
         THEN << [op |-> "UpdateSingletonEntityId", Actor |-> actor, EntityId |-> id] >>
         ELSE << >>) \o
        (IF ActorClass[actor].Stable
         THEN << [op |-> "ResolveEntityActor", Actor |-> actor, EntityId |-> id] >>
         ELSE << >>)]

OnReserveEntityIdResponse(c, success) ==
    LET s0 == TakeRequest(SenderState, c, "reserve")
        id == ReservedEntityId(c)
    IN  /\ Running
        /\ c \notin Invalid
        /\ PendingActorRequests[c].reserve > 0
        /\ success \/ Failures < MaxFailures
        /\ Failures' = IF success THEN Failures ELSE Failures + 1
        /\ LastCall' = [op |-> "OnReserveEntityIdResponse", Channel |-> c,
                        success |-> success, valid |-> ~ActorIsInvalid(c)]
        /\ IF ActorIsInvalid(c)
           THEN /\ Commit(s0)
                /\ UNCHANGED <<EntityId, EntityRegistry, ActorChannels>>
           ELSE IF ~success
           THEN /\ Commit(SendReserveEntityIdRequest(s0, c))
                /\ UNCHANGED <<EntityId, EntityRegistry, ActorChannels>>
           ELSE /\ EntityId' = [EntityId EXCEPT ![c] = id]
                \* RegisterEntityId
                /\ EntityRegistry' = MapAdd(EntityRegistry, Actor[c], id)
                /\ ActorChannels' = MapAdd(ActorChannels, id, c)
                /\ Commit(RegisterEntityId(s0, Actor[c], id))
        /\ UNCHANGED <<Actor, bCreatingNewEntity, HandoverShadowDataMap, WorkingSetId,
                       WorkingSets, Resolved, Invalid, HandoverData, HandoverSubobjects, RepLayout,
                       bFirstTick, bNetOwned, IsServer, ActorClass,
                       RepState, ChangelistState, PeerRepState>>

\* RepRefs: the references of the rep fields of the actor and its
\* subobjects when a failed create is composed again.
CreateRefs(c, R) ==
    {[o \in ObjectsOf(c) |-> IF o = ActorOf(c) THEN a ELSE sub[o]] :
        a \in FieldRefs(R, ActorOf(c), RepHandlesOf(ActorOf(c))),
        sub \in [SubobjectsOf(c) -> FieldRefs(R, "S1", RepHandlesOf("S1"))]}

OnCreateEntityResponse(c, success, RepRefs) ==
    LET s0 == TakeRequest(SenderState, c, "create")
    IN  /\ Running
        /\ c \notin Invalid
        /\ PendingActorRequests[c].create > 0
        /\ success \/ Failures < MaxFailures
        /\ Failures' = IF success THEN Failures ELSE Failures + 1
        /\ LastCall' = [op |-> "OnCreateEntityResponse", Channel |-> c,
                        success |-> success, valid |-> ~ActorIsInvalid(c)]
        /\ IF ActorIsInvalid(c) \/ success
           THEN Commit(s0)
           ELSE Commit(SendCreateEntityRequest(s0, c, "nullptr", RepRefs))
        /\ UNCHANGED <<Actor, EntityId, bCreatingNewEntity, HandoverShadowDataMap,
                       WorkingSetId, WorkingSets, Resolved, Invalid, HandoverData, HandoverSubobjects, RepLayout,
                       bFirstTick, bNetOwned, IsServer,
                       EntityRegistry, ActorChannels, ActorClass, RepState,
                       ChangelistState, PeerRepState>>

(***************************************************************************)
(* Calls into the sender from the receiver and from game code              *)
(***************************************************************************)
ChannelVars == <<ActorClass, Actor, EntityId, bCreatingNewEntity, HandoverShadowDataMap,
                 HandoverSubobjects, RepLayout, bFirstTick, bNetOwned, IsServer,
                 WorkingSetId, WorkingSets, EntityRegistry, ActorChannels,
                 RepState, ChangelistState, PeerRepState>>

\* The entries of Object's reverse map that this call will flush, whose
\* fields the factory reads.
FlushedObjects(Object, bIsHandover) ==
    LET O == SenderState.O[bIsHandover]
    IN  IF Object \notin DOMAIN O THEN {}
        ELSE {pair[2] : pair \in {q \in DOMAIN O[Object] : PairIsValid(q)}}

CallResolveOutgoingOperations(Object, bIsHandover, pairs, ascending, RepRefs) ==
    /\ Running
    /\ Object \in Resolved
    /\ Commit(ResolveOutgoingOperations(SenderState, Object, bIsHandover, pairs,
                                        ascending, RepRefs))
    /\ LastCall' = [op |-> "ResolveOutgoingOperations", Object |-> Object,
                    bIsHandover |-> bIsHandover]
    /\ UNCHANGED <<ChannelVars, Resolved, Invalid, HandoverData, Failures>>

CallResolveOutgoingRPCs(Object) ==
    /\ Running
    /\ Object \in Resolved
    /\ Commit(ResolveOutgoingRPCs(SenderState, Object))
    /\ LastCall' = [op |-> "ResolveOutgoingRPCs", Object |-> Object]
    /\ UNCHANGED <<ChannelVars, Resolved, Invalid, HandoverData, Failures>>

QueuedRPCs == LET n[S \in SUBSET DOMAIN OutgoingRPCs] ==
                      IF S = {} THEN 0
                      ELSE LET k == CHOOSE x \in S : TRUE
                           IN  Len(OutgoingRPCs[k]) + n[S \ {k}]
              IN  n[DOMAIN OutgoingRPCs]

CallSendRPC(TargetObject, Function, Parameters) ==
    /\ Running
    /\ QueuedRPCs < MaxQueuedRPCs
    /\ Commit(SendRPC(SenderState, TargetObject, Function, Parameters))
    /\ LastCall' = [op |-> "SendRPC", TargetObject |-> TargetObject,
                    Function |-> Function, Parameters |-> Parameters]
    /\ UNCHANGED <<ChannelVars, Resolved, Invalid, HandoverData, Failures>>

(***************************************************************************)
(* USpatialActorChannel::Close, DeleteEntityIfAuthoritative                *)
(***************************************************************************)
\* Connection: whether NetDriver->Connection is set.  bAllowed: the value of
\* NetDriver->IsAuthoritativeDestructionAllowed().  Authority: what the view
\* reports for the entity's position component.  The entity is a singleton
\* when the global state manager lists it (IsSingletonEntity), which it does
\* for the entities of singleton classes.
\* Faulty variant: a singleton is deleted like any other entity.
DeleteEntityIfAuthoritativeCritical(s, c, Connection, bAllowed, Authority) ==
    IF ~Connection THEN s
    ELSE [s EXCEPT !.sent =
             @ \o (IF bAllowed /\ Authority = "WORKER_AUTHORITY_AUTHORITATIVE"
                   THEN << [op |-> "SendDeleteEntityRequest", EntityId |-> EntityId[c]] >>
                   ELSE << >>)
               \o << [op |-> "CleanupDeletedEntity", EntityId |-> EntityId[c]] >>]

DeleteEntityIfAuthoritative(s, c, Connection, bAllowed, Authority) ==
    IF ~Connection THEN s
    ELSE [s EXCEPT !.sent =
             @ \o (IF /\ bAllowed /\ Authority = "WORKER_AUTHORITY_AUTHORITATIVE"
                      /\ ~(Actor[c] # "null" /\ ActorClass[Actor[c]].Singleton)
                   THEN << [op |-> "SendDeleteEntityRequest", EntityId |-> EntityId[c]] >>
                   ELSE << >>)
               \o << [op |-> "CleanupDeletedEntity", EntityId |-> EntityId[c]] >>]

Close(c, Connection, bAllowed, Authority) ==
    /\ Running
    /\ c \notin Invalid
    \* the view reports authority only over an entity that exists
    /\ Authority = "WORKER_AUTHORITY_AUTHORITATIVE" => EntityId[c] # 0
    /\ Commit(DeleteEntityIfAuthoritative(SenderState, c, Connection, bAllowed, Authority))
    /\ LastCall' = [op |-> "Close", Channel |-> c, Connection |-> Connection,
                    bAllowed |-> bAllowed, Authority |-> Authority]
    /\ UNCHANGED <<ChannelVars, Resolved, Invalid, HandoverData, Failures>>

(***************************************************************************)
(* USpatialActorChannel::SpatialViewTick, USpatialSender::UpdateEntityACLs *)
(***************************************************************************)
\* NetConnection: whether Actor->GetNetConnection() is set at this tick.
\* EntityACL: what View->GetEntityACL(EntityId) returns, "nullptr" while the
\* entity's ACL component is not in the view.
\* UpdateEntityACLs returns whether it sent the update.
UpdateEntityACLs(s, c, NetConnection, EntityACL) ==
    IF EntityACL = "nullptr" THEN s
    ELSE [s EXCEPT !.sent = Append(@, [op |-> "SendEntityAclUpdate",
                                       EntityId |-> EntityId[c],
                                       NetOwned |-> NetConnection])]

SpatialViewTick(c, NetConnection, EntityACL) ==
    LET usable == Actor[c] # "null" /\ Actor[c] \notin Invalid /\ EntityId[c] # 0
        due == usable /\ (bFirstTick[c] \/ bNetOwned[c] # NetConnection)
        bSuccess == EntityACL # "nullptr"
    IN  /\ Running
        /\ c \notin Invalid
        /\ bNetOwned' = IF usable THEN [bNetOwned EXCEPT ![c] = NetConnection] ELSE bNetOwned
        /\ bFirstTick' = IF due /\ (IsServer => bSuccess)
                         THEN [bFirstTick EXCEPT ![c] = FALSE] ELSE bFirstTick
        /\ Commit(IF ~due THEN SenderState
                  ELSE IF IsServer
                  THEN UpdateEntityACLs(SenderState, c, NetConnection, EntityACL)
                  ELSE [SenderState EXCEPT !.sent =
                           Append(@, [op |-> "SendComponentInterest",
                                      EntityId |-> EntityId[c]])])
        /\ LastCall' = [op |-> "SpatialViewTick", Channel |-> c,
                        NetConnection |-> NetConnection, EntityACL |-> EntityACL,
                        attempted |-> due]
        /\ UNCHANGED <<ActorClass, Actor, EntityId, bCreatingNewEntity, HandoverShadowDataMap,
                       HandoverSubobjects, RepLayout, IsServer, WorkingSetId, WorkingSets,
                       EntityRegistry, ActorChannels, RepState, ChangelistState, PeerRepState,
                       Resolved, Invalid, HandoverData, Failures>>

(***************************************************************************)
(* The environment: the package map resolves an object, the engine         *)
(* destroys one, game code writes a handover field.                        *)
(***************************************************************************)
ObjectResolved(Object) ==
    /\ Running
    /\ Object \notin Resolved
    /\ Resolved' = Resolved \cup {Object}
    /\ LastCall' = [op |-> "ObjectResolved", Object |-> Object]
    /\ Commit(SenderState)
    /\ UNCHANGED <<ChannelVars, Invalid, HandoverData, Failures>>

Destroy(Object) ==
    /\ Running
    /\ Object \notin Invalid
    /\ Invalid' = Invalid \cup {Object}
    /\ LastCall' = [op |-> "Destroy", Object |-> Object]
    /\ Commit(SenderState)
    /\ UNCHANGED <<ChannelVars, Resolved, HandoverData, Failures>>

SetHandoverData(Object, Handle, value) ==
    /\ Running
    /\ Object \notin Invalid
    /\ HandoverData[Object][Handle] # value
    /\ HandoverData' = [HandoverData EXCEPT ![Object][Handle] = value]
    /\ LastCall' = [op |-> "SetHandoverData", Object |-> Object, Handle |-> Handle]
    /\ Commit(SenderState)
    /\ UNCHANGED <<ChannelVars, Resolved, Invalid, Failures>>

(***************************************************************************)
(* The specification.                                                      *)
(***************************************************************************)
\* A channel is opened for its actor once ...
Attach == \E c \in Channels : Actor[c] = "null" /\ SetChannelActor(c)

\* ... unless the caller hands an open channel its actor again.
Reattach == \E c \in Channels : Actor[c] # "null" /\ SetChannelActor(c)

\* A subobject with handover properties starts replicating.
StartReplicating(a, Subobject) ==
    /\ Running
    /\ Subobject \notin HandoverSubobjects[a]
    /\ HandoverSubobjects' = [HandoverSubobjects EXCEPT ![a] = @ \cup {Subobject}]
    /\ LastCall' = [op |-> "StartReplicating", Object |-> Subobject]
    /\ Commit(SenderState)
    /\ UNCHANGED <<ActorClass, Actor, EntityId, bCreatingNewEntity, HandoverShadowDataMap,
                   WorkingSetId, WorkingSets, EntityRegistry, ActorChannels, RepState, RepLayout,
                   bFirstTick, bNetOwned, IsServer,
                   ChangelistState, PeerRepState, Resolved, Invalid, HandoverData, Failures>>

Replicate(R) ==
    \E c \in Channels :
        /\ Actor[c] # "null"
        /\ \E ActorIn \in CycleInputs(Actor[c], bCreatingNewEntity[c], R) :
           \E SubIn \in [SubobjectsOf(c) -> CycleInputs("S1", bCreatingNewEntity[c], R)] :
               \* the cycle is given its merged change lists, the ledgers stay
               ReplicateActor(c, ActorIn, SubIn,
                              [RepState |-> RepState, ChangelistState |-> ChangelistState,
                               halted |-> ""])

ReserveResponse == \E c \in Channels, success \in BOOLEAN : OnReserveEntityIdResponse(c, success)

CreateResponse(R) ==
    \E c \in Channels :
        \/ OnCreateEntityResponse(c, TRUE, EmptyMap)
        \/ \E RepRefs \in CreateRefs(c, R) : OnCreateEntityResponse(c, FALSE, RepRefs)

\* The references of the rep fields of the objects in `flushed`.
FlushRefs(flushed, RefSets) ==
    {f \in [flushed -> UNION {[RepHandlesOf(o) -> RefSets] : o \in flushed}] :
        \A o \in flushed : DOMAIN f[o] = RepHandlesOf(o)}

\* The factory reads only the fields of the entries this call flushes.
ResolveOperations(R) ==
    \E Object \in Targets, bIsHandover \in BOOLEAN :
        LET O == SenderState.O[bIsHandover]
            entries == IF Object \in DOMAIN O THEN DOMAIN O[Object] ELSE {}
            flushed == IF bIsHandover THEN {} ELSE FlushedObjects(Object, bIsHandover)
            twoHandles == \E pair \in entries : Cardinality(O[Object][pair]) > 1
        IN  \* the orders in which a TMap may hand out its elements
            \E pairs \in {q \in [1..Cardinality(entries) -> entries] :
                              \A i, j \in DOMAIN q : q[i] = q[j] => i = j} :
            \E ascending \in (IF twoHandles THEN BOOLEAN ELSE {TRUE}) :
            \E RepRefs \in FlushRefs(flushed, R.FlushRefSets) :
                CallResolveOutgoingOperations(Object, bIsHandover, pairs, ascending, RepRefs)

ResolveRPCs == \E Object \in Targets : CallResolveOutgoingRPCs(Object)

InvokeRPC(R) ==
    \E TargetObject \in Targets \cup {"W"}, Function \in Functions, Parameters \in R.ParameterLists :
        CallSendRPC(TargetObject, Function, Parameters)

Resolve == \E Object \in Targets : ObjectResolved(Object)

Kill == \E Object \in AllObjects : Destroy(Object)

Mutate(R) ==
    \E Object \in AllObjects :
        \E Handle \in HandoverHandlesOf(Object), value \in R.HandoverValues :
            SetHandoverData(Object, Handle, value)

\* A cycle that reads its change lists from the ledgers.  Changed[o] is
\* what ChangelistMgr->Update finds changed on o in this cycle.  The
\* subobjects are replicated when the entity exists, the subobject is alive
\* and the actor's own part of the cycle did not fail.
ObjectHistory(c, o, Changed) ==
    IF o # Actor[c]
       /\ (\/ bCreatingNewEntity[c] \/ o \in Invalid
           \/ ReplicateHistory(Actor[c], RepState[Actor[c]], ChangelistState[Actor[c]],
                               Changed[Actor[c]]).History.halted # "")
    THEN [ChangelistState |-> ChangelistState[o], RepChanged |-> << >>,
          History |-> [RepState |-> RepState[o], halted |-> ""]]
    ELSE ReplicateHistory(o, RepState[o], ChangelistState[o], Changed[o])

CycleHistory(c, H) ==
    [RepState |-> [o \in AllObjects |->
                      IF o \in ObjectsOf(c) THEN H[o].History.RepState ELSE RepState[o]],
     ChangelistState |-> [o \in AllObjects |->
                      IF o \in ObjectsOf(c) THEN H[o].ChangelistState
                      ELSE ChangelistState[o]],
     halted |-> IF \A o \in ObjectsOf(c) : H[o].History.halted = "" THEN ""
                ELSE CHOOSE why \in {H[o].History.halted : o \in ObjectsOf(c)} : why # ""]

MergedInputs(c, o, H, R) ==
    {[RepChanged |-> H[o].RepChanged, RepRefs |-> r] :
        r \in FieldRefs(R, o, IF bCreatingNewEntity[c] THEN RepHandlesOf(o)
                              ELSE RootHandles(o, H[o].RepChanged))}

ReplicateMerged(c, H, R) ==
    \E ActorIn \in MergedInputs(c, Actor[c], H, R) :
    \E SubIn \in {f \in [SubobjectsOf(c) ->
                           UNION {MergedInputs(c, o, H, R) : o \in SubobjectsOf(c)}] :
                     \A o \in SubobjectsOf(c) : f[o] \in MergedInputs(c, o, H, R)} :
        ReplicateActor(c, ActorIn, SubIn, CycleHistory(c, H))

ReplicateFromHistory(R) ==
    \E c \in Channels :
        /\ Actor[c] # "null"
        /\ \E Changed \in {f \in [ObjectsOf(c) -> UNION {R.RepChangeLists[o] : o \in ObjectsOf(c)}] :
                                \A o \in ObjectsOf(c) : f[o] \in R.RepChangeLists[o]} :
              /\ \A o \in ObjectsOf(c) :
                     Len(Changed[o]) > 0 => ChangelistState[o].HistoryEnd < MaxChangelists
              /\ ReplicateMerged(c, [o \in ObjectsOf(c) |-> ObjectHistory(c, o, Changed)], R)

\* The channel of another connection replicates the object: its cycle on
\* the shared ledger and on its own FRepState.  What it sends goes to its
\* own connection.
ReplicateElsewhere(Object, Changed) ==
    /\ Running
    /\ Len(Changed) > 0 => ChangelistState[Object].HistoryEnd < MaxChangelists
    /\ ChangelistState' = [ChangelistState EXCEPT ![Object] =
           ReplicateHistory(Object, PeerRepState[Object], @, Changed).ChangelistState]
    /\ PeerRepState' = [PeerRepState EXCEPT ![Object] =
           ReplicateHistory(Object, @, ChangelistState[Object], Changed).History.RepState]
    /\ LastCall' = [op |-> "ReplicateElsewhere", Object |-> Object]
    /\ Commit(Halt(SenderState,
                   ReplicateHistory(Object, PeerRepState[Object], ChangelistState[Object],
                                    Changed).History.halted))
    /\ UNCHANGED <<ActorClass, Actor, EntityId, bCreatingNewEntity, HandoverShadowDataMap,
                   HandoverSubobjects, RepLayout,
                   bFirstTick, bNetOwned, IsServer, WorkingSetId, WorkingSets, EntityRegistry, ActorChannels,
                   RepState, Resolved, Invalid, HandoverData, Failures>>

\* The ledgers under the cycles of one channel, adopted or newly created,
\* and of the channel another connection has for the same actor.
NextLedger ==
    \/ Attach
    \/ \E c \in Channels : OnReserveEntityIdResponse(c, TRUE)
    \/ ReplicateFromHistory(LedgerInputs)
    \/ \E c \in Channels :
           \E Changed \in LedgerInputs.RepChangeLists[ActorOf(c)] \ {<< >>} :
               ReplicateElsewhere(ActorOf(c), Changed)

SpecLedger == Init /\ [][NextLedger]_vars

\* The resolver under a channel that adopts an existing entity.
InitAdopt == Init /\ EntityRegistry # EmptyMap

NextResolver ==
    \/ Attach
    \/ Replicate(ResolverInputs)
    \/ ResolveOperations(ResolverInputs)
    \/ Resolve
    \/ Mutate(ResolverInputs)

SpecResolver == InitAdopt /\ [][NextResolver]_vars

\* The pending RPCs, next to a channel that adopts an existing entity.
NextRPC ==
    \/ Attach
    \/ Replicate(RPCInputs)
    \/ ResolveOperations(RPCInputs)
    \/ ResolveRPCs
    \/ InvokeRPC(RPCInputs)
    \/ Resolve

SpecRPC == InitAdopt /\ [][NextRPC]_vars

\* RPC invocations, resolutions and their reports alone.  The package map
\* resolves every object in the end and reports each resolved object to
\* ResolveOutgoingRPCs.
SpecCalls ==
    /\ Init
    /\ [][ResolveRPCs \/ InvokeRPC(RPCInputs) \/ Resolve]_vars
    /\ \A Object \in Targets :
          WF_vars(ObjectResolved(Object)) /\ WF_vars(CallResolveOutgoingRPCs(Object))

\* The channel's lifecycle: attach, creation handshake, cycles, resolution.
Next ==
    \/ Attach
    \/ Replicate(LifecycleInputs)
    \/ ReserveResponse
    \/ CreateResponse(LifecycleInputs)
    \/ ResolveOperations(LifecycleInputs)
    \/ Resolve
    \/ Kill
    \/ Mutate(LifecycleInputs)

Spec == Init /\ [][Next]_vars

\* The creation handshake for an actor of any class.
InitAnyClass ==
    /\ Constructed
    /\ ActorClass \in [{ActorOf(c) : c \in Channels} -> ActorClasses]
    /\ RepLayout = CmdsOf("A1")
    /\ IsServer = TRUE

NextCreation ==
    \/ Attach
    \/ Replicate(CreationInputs)
    \/ ReserveResponse
    \/ CreateResponse(CreationInputs)
    \/ Resolve
    \/ Kill
    \/ Mutate(CreationInputs)

SpecCreation == InitAnyClass /\ [][NextCreation]_vars

\* Closing a channel, at any point of its actor's creation handshake.
SpecClose ==
    /\ InitAnyClass
    /\ [][\/ Attach
          \/ ReserveResponse
          \/ Replicate(CreationInputs)
          \/ \E c \in Channels, Connection \in BOOLEAN, bAllowed \in BOOLEAN,
                Authority \in {"WORKER_AUTHORITY_NOT_AUTHORITATIVE",
                               "WORKER_AUTHORITY_AUTHORITATIVE",
                               "WORKER_AUTHORITY_AUTHORITY_LOSS_IMMINENT"} :
                 Close(c, Connection, bAllowed, Authority)]_vars

\* The ticks of a channel on a server or a client worker, while its actor
\* is attached, given its entity and destroyed.
InitTick ==
    /\ Constructed
    /\ ActorClass = [a \in {ActorOf(c) : c \in Channels} |-> PlainClass]
    /\ RepLayout = CmdsOf("A1")
    /\ IsServer \in BOOLEAN

SpecTick ==
    /\ InitTick
    /\ [][\/ Attach
          \/ ReserveResponse
          \/ Kill
          \/ \E c \in Channels, NetConnection \in BOOLEAN, EntityACL \in {"nullptr", "acl"} :
                 SpatialViewTick(c, NetConnection, EntityACL)]_vars

\* The handover shadow data: the actor and a subobject that starts
\* replicating before or after the channel is opened.
HandoverInputs ==
    [RepChangeLists |-> [o \in AllObjects |-> {<< >>}],
     PropertyRefs |-> {{}},
     ArrayRefs |-> {{}},
     FlushRefSets |-> {{}},
     HandoverValues |-> {{}, {"X"}, {"Y"}},
     ParameterLists |-> {<< >>}]

NextHandover ==
    \/ Attach
    \/ Reattach
    \/ \E c \in Channels : OnReserveEntityIdResponse(c, TRUE)
    \/ Replicate(HandoverInputs)
    \/ \E c \in Channels, Subobject \in LateSubobjects : StartReplicating(ActorOf(c), Subobject)
    \/ \E Object \in {"A1"} \cup LateSubobjects :
           \E Handle \in HandoverHandlesOf(Object), value \in HandoverInputs.HandoverValues :
               SetHandoverData(Object, Handle, value)
    \/ Resolve

SpecHandover == Init /\ [][NextHandover]_vars

\* Working sets.  The channels of other grouped actors run the same branch
\* of their creating cycle (SpatialActorChannel.cpp:306-318), each once,
\* with a WorkingSetId that names a registered working set or is still -1;
\* and a channel's WorkingSetId may be set to a registered working set
\* before its creating cycle (it is tested at line 308).
ReplicateGroupedElsewhere(p, id) ==
    /\ Running
    /\ \A k \in DOMAIN WorkingSets : \A i \in 1..Len(WorkingSets[k]) : WorkingSets[k][i] # p
    /\ WorkingSets' = EnqueueForWorkingSet(WorkingSets, p, id)
    /\ LastCall' = [op |-> "ReplicateGroupedElsewhere", Channel |-> p]
    /\ Commit(IF Len(EnqueueForWorkingSet(WorkingSets, p, id)[id]) = WorkingSetSize
              THEN CreateWorkingSet(SenderState, EnqueueForWorkingSet(WorkingSets, p, id), id)
              ELSE SenderState)
    /\ UNCHANGED <<ActorClass, Actor, EntityId, bCreatingNewEntity, HandoverShadowDataMap,
                   HandoverSubobjects, RepLayout,
                   bFirstTick, bNetOwned, IsServer, WorkingSetId, EntityRegistry, ActorChannels,
                   RepState, ChangelistState, PeerRepState, Resolved, Invalid, HandoverData,
                   Failures>>

AssignWorkingSet(c, id) ==
    /\ Running
    /\ WorkingSetId[c] < 0 /\ IsAValidWorkingSet(c)
    /\ WorkingSetId' = [WorkingSetId EXCEPT ![c] = id]
    /\ LastCall' = [op |-> "AssignWorkingSet", Channel |-> c]
    /\ Commit(SenderState)
    /\ UNCHANGED <<ActorClass, Actor, EntityId, bCreatingNewEntity, HandoverShadowDataMap,
                   HandoverSubobjects, RepLayout,
                   bFirstTick, bNetOwned, IsServer, WorkingSets, EntityRegistry, ActorChannels,
                   RepState, ChangelistState, PeerRepState, Resolved, Invalid, HandoverData,
                   Failures>>

NextWorkingSet ==
    \/ Attach
    \/ \E c \in Channels : OnReserveEntityIdResponse(c, TRUE)
    \/ Replicate(CreationInputs)
    \/ \E p \in {"p1", "p2", "p3"}, id \in DOMAIN WorkingSets \cup {RegisterNewWorkingSet} :
           ReplicateGroupedElsewhere(p, id)
    \/ \E c \in Channels, id \in DOMAIN WorkingSets : AssignWorkingSet(c, id)

SpecWorkingSet == InitAnyClass /\ [][NextWorkingSet]_vars

\* CreateInitialRepChangeState on the replicator of any well-formed layout
\* of up to MaxCmds commands.  A layout is a sequence of properties and
\* dynamic arrays, each array closed by a Return after at least one inner
\* command, and a Return at the end.
MaxCmds == 7

\* How many arrays are open before the i-th command.
DepthBefore(types, i) ==
    Cardinality({k \in 1..(i - 1) : types[k] = "DynamicArray"})
        - Cardinality({k \in 1..(i - 1) : types[k] = "Return"})

WellFormed(types) ==
    /\ types[Len(types)] = "Return" /\ DepthBefore(types, Len(types)) = 0
    /\ \A i \in 1..(Len(types) - 1) :
           /\ types[i] = "Return" => DepthBefore(types, i) > 0
           /\ types[i] = "DynamicArray" => types[i + 1] # "Return"

\* The Return that closes the array at i, and the array that encloses i
\* (0 at the root).
ClosingReturn(types, i) ==
    CHOOSE j \in (i + 1)..Len(types) :
        /\ types[j] = "Return" /\ DepthBefore(types, j) = DepthBefore(types, i) + 1
        /\ \A k \in (i + 1)..(j - 1) :
               ~(types[k] = "Return" /\ DepthBefore(types, k) = DepthBefore(types, i) + 1)

Enclosing(types, i) ==
    IF DepthBefore(types, i) = 0 THEN 0
    ELSE CHOOSE a \in 1..(i - 1) :
             /\ types[a] = "DynamicArray" /\ DepthBefore(types, a) = DepthBefore(types, i) - 1
             /\ \A b \in (a + 1)..(i - 1) :
                    ~(types[b] = "DynamicArray"
                      /\ DepthBefore(types, b) = DepthBefore(types, i) - 1)

\* FRepLayout::Cmds for a sequence of command types: handles count from 1
\* within the root and within each array, a Return has handle 0, and an
\* array's EndCmd is the index after its Return.
CmdsFor(types) ==
    [i \in 1..Len(types) |->
        [Type |-> types[i],
         RelativeHandle |->
             IF types[i] = "Return" THEN 0
             ELSE 1 + Cardinality({k \in (Enclosing(types, i) + 1)..(i - 1) :
                                      /\ types[k] # "Return"
                                      /\ DepthBefore(types, k) = DepthBefore(types, i)}),
         EndCmd |-> IF types[i] = "DynamicArray" THEN ClosingReturn(types, i) ELSE 0]]

RepLayouts ==
    UNION {{CmdsFor(types) :
               types \in {x \in [1..n -> {"Property", "DynamicArray", "Return"}] : WellFormed(x)}} :
           n \in 1..MaxCmds}

InitLayout ==
    /\ Constructed
    /\ ActorClass = [a \in {ActorOf(c) : c \in Channels} |-> PlainClass]
    /\ RepLayout \in RepLayouts
    /\ IsServer = TRUE

CallCreateInitialRepChangeState ==
    /\ LastCall.op = "construct"
    /\ LastCall' = [op |-> "CreateInitialRepChangeState",
                    InitialRepChanged |-> InitialRepChanged(RepLayout, 0, 0)]
    /\ Commit(SenderState)
    /\ UNCHANGED <<ChannelVars, Resolved, Invalid, HandoverData, Failures>>

SpecLayout == InitLayout /\ [][CallCreateInitialRepChangeState]_vars

(***************************************************************************)
(* Properties.  Action properties read the handler that ran and what it    *)
(* sent from LastCall' and Sent', and the containers before and after.     *)
(***************************************************************************)

\* The forward and reverse map of a kind.
Forward(bIsHandover) ==
    IF bIsHandover THEN HandoverPropertyToUnresolved ELSE RepPropertyToUnresolved
Backward(bIsHandover) ==
    IF bIsHandover THEN HandoverObjectToUnresolved ELSE RepObjectToUnresolved

\* The same maps after the step.
ForwardNext(bIsHandover) ==
    IF bIsHandover THEN HandoverPropertyToUnresolved' ELSE RepPropertyToUnresolved'
BackwardNext(bIsHandover) ==
    IF bIsHandover THEN HandoverObjectToUnresolved' ELSE RepObjectToUnresolved'

\* The pending set of a forward entry, empty when there is none.
PendingSet(P, pair, h) ==
    IF pair \in DOMAIN P /\ h \in DOMAIN P[pair] THEN P[pair][h] ELSE {}

\* The property handles of a kind that a SendComponentUpdates call carries.
Carried(msg, bIsHandover) ==
    IF bIsHandover THEN HandoverHandles(msg.HandoverChanges)
    ELSE RootHandles(msg.Object, msg.RepChanges)

\* The component updates in `sent` for a (channel, object), by position.
UpdatesFor(sent, pair) ==
    {i \in 1..Len(sent) : /\ sent[i].op = "SendComponentUpdates"
                          /\ sent[i].Channel = pair[1]
                          /\ sent[i].Object = pair[2]}

\* Those of them that carry handle h of a kind.
Carrying(sent, pair, h, bIsHandover) ==
    {i \in UpdatesFor(sent, pair) : h \in Carried(sent[i], bIsHandover)}

ResolveRan == LastCall'.op = "ResolveOutgoingOperations"

\* C1 (resolver completeness): a ResolveOutgoingOperations(t, kind) call
\* sends the handle of a pending entry of that kind (channel and object
\* alive) in exactly one component update when t is the last target left in
\* the entry's pending set, and in none otherwise, the entry then staying
\* pending on its other targets; so whatever the order of the calls on the
\* targets, the handle is sent once, in the call for the last of them.
C1_ResolverCompleteness ==
    [][ResolveRan =>
          \A pair \in Pairs : \A h \in HandlesOf(pair[2], LastCall'.bIsHandover) :
              LET S == PendingSet(Forward(LastCall'.bIsHandover), pair, h)
                  n == Cardinality(Carrying(Sent', pair, h, LastCall'.bIsHandover))
              IN  (S # {} /\ PairIsValid(pair)) =>
                      IF S = {LastCall'.Object}
                      THEN n = 1
                      ELSE /\ n = 0
                           /\ PendingSet(ForwardNext(LastCall'.bIsHandover), pair, h)
                                  = S \ {LastCall'.Object}]_vars

\* One call for X: the property of A1, blocked on X alone, is flushed, and
\* the array of A1, blocked on X and Y, is held back, now pending on Y.
C1_Witness ==
    /\ LastCall.op = "ResolveOutgoingOperations"
    /\ LastCall.Object = "X" /\ ~LastCall.bIsHandover
    /\ Carrying(Sent, <<"c1", "A1">>, 1, FALSE) # {}
    /\ Carrying(Sent, <<"c1", "A1">>, 2, FALSE) = {}
    /\ PendingSet(RepPropertyToUnresolved, <<"c1", "A1">>, 2) = {"Y"}

\* Whether the reverse map O holds t -> pair -> h.
Mirrored(O, t, pair, h) ==
    t \in DOMAIN O /\ pair \in DOMAIN O[t] /\ h \in O[t][pair]

\* C2 (index consistency): while the program runs, for each kind, target t
\* is in the pending set of forward entry (channel, object, handle) if and
\* only if the reverse map holds t -> (channel, object) -> handle, also
\* after a dependent channel or object has become invalid.
C2_IndexConsistency ==
    Running =>
        \A bIsHandover \in BOOLEAN : \A pair \in Pairs :
            \A h \in HandlesOf(pair[2], bIsHandover) : \A t \in Targets :
                t \in PendingSet(Forward(bIsHandover), pair, h)
                    <=> Mirrored(Backward(bIsHandover), t, pair, h)

\* No forward or reverse entry is left holding an empty inner map.
NoEmptyMaps(P, O) ==
    /\ \A pair \in DOMAIN P : DOMAIN P[pair] # {}
    /\ \A t \in DOMAIN O : /\ DOMAIN O[t] # {}
                           /\ \A pair \in DOMAIN O[t] : O[t][pair] # {}

\* C3 (reset correctness): once a handler has run ResetOutgoingUpdate on an
\* existing pending entry, the entry is gone from the forward map and from
\* the reverse-index entry of every target (what is there afterwards is what
\* the same handler queued anew), no inner map is left empty, and a later
\* ResolveOutgoingOperations sends a handle only on account of a forward
\* entry that holds the resolved target.
C3_ResetCorrectness ==
    [][/\ \A e \in Resets' :
              /\ \A t \in Targets :
                     Mirrored(BackwardNext(e[3]), t, e[1], e[2])
                         <=> t \in PendingSet(ForwardNext(e[3]), e[1], e[2])
              /\ PendingSet(ForwardNext(e[3]), e[1], e[2]) = {}
                     => ~(/\ e[1] \in DOMAIN ForwardNext(e[3])
                          /\ e[2] \in DOMAIN ForwardNext(e[3])[e[1]])
              /\ NoEmptyMaps(ForwardNext(e[3]), BackwardNext(e[3]))
       /\ ResolveRan =>
              \A pair \in Pairs : \A h \in HandlesOf(pair[2], LastCall'.bIsHandover) :
                  Carrying(Sent', pair, h, LastCall'.bIsHandover) # {}
                      => LastCall'.Object
                             \in PendingSet(Forward(LastCall'.bIsHandover), pair, h)
      ]_vars

\* A cycle reset the pending entry of A1's array and queued nothing in its
\* place: nothing is resolved and nothing is pending any more.
C3_Witness ==
    /\ LastCall.op = "ReplicateActor"
    /\ <<(<<"c1", "A1">>), 2, FALSE>> \in Resets
    /\ Resolved = {}
    /\ RepPropertyToUnresolved = EmptyMap
    /\ RepObjectToUnresolved = EmptyMap

ReplicateRan == LastCall'.op = "ReplicateActor"

\* The handle list a flush hands over for rep handle F of an object.
FollowUpList(Object, F) ==
    << F >> \o (IF IsDynamicArrayHandle(Object, F) THEN <<0, 0>> ELSE << >>) \o << 0 >>

\* C4 (scenario F/G): a cycle whose update for object O has fields F and G
\* dirty, F referencing one unresolved object x and G nothing, sends G in
\* that update and leaves exactly one pending rep entry of O, (O, F) blocked
\* on x; and the ResolveOutgoingOperations call for x, that entry being the
\* only one of O, sends one update for O whose handle list is F's handle,
\* two marker zeros if F is a dynamic array, and the final zero.
C4_ScenarioFG ==
    [][/\ ReplicateRan =>
              \A i \in 1..Len(Sent') :
                  Sent'[i].op = "SendComponentUpdates" =>
                      \A F, G \in DOMAIN Sent'[i].RepRead : \A x \in Targets :
                          (/\ DOMAIN Sent'[i].RepRead = {F, G} /\ F # G
                           /\ Sent'[i].RepRead[F] \ Resolved = {x}
                           /\ Sent'[i].RepRead[G] = {})
                          => /\ G \in Sent'[i].RepWritten
                             /\ F \notin Sent'[i].RepWritten
                             /\ <<Sent'[i].Channel, Sent'[i].Object>> \in DOMAIN RepPropertyToUnresolved'
                             /\ RepPropertyToUnresolved'[<<Sent'[i].Channel, Sent'[i].Object>>]
                                    = [h \in {F} |-> {x}]
                             /\ Mirrored(RepObjectToUnresolved', x,
                                         <<Sent'[i].Channel, Sent'[i].Object>>, F)
       /\ (ResolveRan /\ ~LastCall'.bIsHandover) =>
              \A pair \in Pairs : \A F \in RepHandlesOf(pair[2]) :
                  (/\ PairIsValid(pair)
                   /\ pair \in DOMAIN RepPropertyToUnresolved
                   /\ RepPropertyToUnresolved[pair] = [h \in {F} |-> {LastCall'.Object}])
                  => /\ Cardinality(UpdatesFor(Sent', pair)) = 1
                     /\ \A i \in UpdatesFor(Sent', pair) :
                            /\ Sent'[i].RepChanges = FollowUpList(pair[2], F)
                            /\ Sent'[i].HandoverChanges = nullptr
      ]_vars

\* A cycle of A1 with both fields dirty, the array (F) referencing the
\* unresolved X and the property (G) nothing: G is written, F is pending.
C4_Witness ==
    /\ LastCall.op = "ReplicateActor"
    /\ "X" \notin Resolved
    /\ \E i \in 1..Len(Sent) :
           /\ Sent[i].op = "SendComponentUpdates" /\ Sent[i].Object = "A1"
           /\ Sent[i].RepRead = (1 :> {} @@ 2 :> {"X"})
           /\ Sent[i].RepWritten = {1}
    /\ <<"c1", "A1">> \in DOMAIN RepPropertyToUnresolved
    /\ RepPropertyToUnresolved[<<"c1", "A1">>] = (2 :> {"X"})

\* C5 (duplicate queue): in every state the program reaches,
\* QueueOutgoingUpdate for a (channel, object, handle, kind) that already
\* has a pending entry halts on its check and leaves both maps of the kind
\* as they were: the existing entry is neither replaced nor merged.
C5_DuplicateQueueFails ==
    \A bIsHandover \in BOOLEAN : \A pair \in DOMAIN Forward(bIsHandover) :
        \A h \in DOMAIN Forward(bIsHandover)[pair] :
            \A UnresolvedObjects \in (SUBSET Targets) \ {{}} :
                /\ QueueOutgoingUpdate(SenderState, pair, h, UnresolvedObjects,
                                       bIsHandover).halted
                       = "QueueOutgoingUpdate: check(!HandleToUnresolved.Find(Handle))"
                /\ QueueOutgoingUpdate(SenderState, pair, h, UnresolvedObjects,
                                       bIsHandover).P = SenderState.P
                /\ QueueOutgoingUpdate(SenderState, pair, h, UnresolvedObjects,
                                       bIsHandover).O = SenderState.O

\* The program halted on that check: a failed create was composed again
\* while a handle queued by the first attempt was still pending.
C5_Witness ==
    /\ Halted = "QueueOutgoingUpdate: check(!HandleToUnresolved.Find(Handle))"
    /\ LastCall.op = "OnCreateEntityResponse"
    /\ \E bIsHandover \in BOOLEAN : Forward(bIsHandover) # EmptyMap

\* The four update maps and the pending-RPC map.
Indices == <<RepPropertyToUnresolved, RepObjectToUnresolved,
             HandoverPropertyToUnresolved, HandoverObjectToUnresolved, OutgoingRPCs>>

ResolveRPCsRan == LastCall'.op = "ResolveOutgoingRPCs"

\* C6 (nothing pending): ResolveOutgoingOperations(target, kind) for a
\* target with no entry in the reverse map of the kind, and
\* ResolveOutgoingRPCs(target) for a target with no pending RPC list, send
\* nothing, raise no error, and leave the four update maps and the
\* pending-RPC map as they were.
C6_NothingPendingIsNoOp ==
    [][/\ (ResolveRan /\ LastCall'.Object \notin DOMAIN Backward(LastCall'.bIsHandover))
            => (Sent' = << >> /\ Halted' = "" /\ UNCHANGED Indices)
       /\ (ResolveRPCsRan /\ LastCall'.Object \notin DOMAIN OutgoingRPCs)
            => (Sent' = << >> /\ Halted' = "" /\ UNCHANGED Indices)]_vars

\* Y was resolved while the only pending update and the only pending RPC
\* wait for X: the call for Y sent nothing and both are still pending.
C6_Witness ==
    /\ LastCall.op = "ResolveOutgoingOperations"
    /\ LastCall.Object = "Y" /\ ~LastCall.bIsHandover
    /\ DOMAIN RepObjectToUnresolved = {"X"}
    /\ DOMAIN OutgoingRPCs = {"X"}
    /\ Sent = << >> /\ Halted = ""

\* Whether sender state s2 has the maps of a kind that s1 has.
SameMaps(s1, s2, bIsHandover) ==
    s1.P[bIsHandover] = s2.P[bIsHandover] /\ s1.O[bIsHandover] = s2.O[bIsHandover]

\* An update that carries the change list of one kind and no list of the
\* other.
OfKindOnly(msg, bIsHandover) ==
    IF bIsHandover
    THEN /\ msg.RepChanges = nullptr /\ msg.HandoverChanges # nullptr
         /\ msg.RepWritten = {}
    ELSE /\ msg.HandoverChanges = nullptr /\ msg.RepChanges # nullptr
         /\ msg.HandoverWritten = {}

\* C7 (kinds are independent): in every state the program reaches,
\* ResetOutgoingUpdate and QueueOutgoingUpdate called with one kind leave
\* the forward and reverse map of the other kind as they were; and a
\* ResolveOutgoingOperations(target, kind) call leaves the other kind's two
\* maps unchanged, every update it flushes carrying the change list of
\* that kind and no change list of the other.
C7_KindsIndependent ==
    /\ [](\A bIsHandover \in BOOLEAN : \A pair \in Pairs :
             \A h \in HandlesOf(pair[2], bIsHandover) :
                 /\ SameMaps(ResetOutgoingUpdate(SenderState, pair, h, bIsHandover),
                             SenderState, ~bIsHandover)
                 /\ \A UnresolvedObjects \in (SUBSET Targets) \ {{}} :
                        SameMaps(QueueOutgoingUpdate(SenderState, pair, h,
                                                     UnresolvedObjects, bIsHandover),
                                 SenderState, ~bIsHandover))
    /\ [][ResolveRan =>
             /\ ForwardNext(~LastCall'.bIsHandover) = Forward(~LastCall'.bIsHandover)
             /\ BackwardNext(~LastCall'.bIsHandover) = Backward(~LastCall'.bIsHandover)
             /\ \A i \in 1..Len(Sent') :
                    /\ Sent'[i].op = "SendComponentUpdates"
                    /\ OfKindOnly(Sent'[i], LastCall'.bIsHandover)]_vars

\* A replicated property and a handover field of A1 both waited for X; the
\* handover call for X flushed the handover field alone, and the
\* replicated property is still pending.
C7_Witness ==
    /\ LastCall.op = "ResolveOutgoingOperations"
    /\ LastCall.Object = "X" /\ LastCall.bIsHandover
    /\ Len(Sent) = 1
    /\ Sent[1].Object = "A1"
    /\ Sent[1].HandoverChanges = <<1>> /\ Sent[1].RepChanges = nullptr
    /\ PendingSet(RepPropertyToUnresolved, <<"c1", "A1">>, 1) = {"X"}
    /\ Mirrored(RepObjectToUnresolved, "X", <<"c1", "A1">>, 1)
    /\ HandoverPropertyToUnresolved = EmptyMap

\* The handle list of a kind that an update was sent with.
HandleList(msg, bIsHandover) ==
    IF bIsHandover THEN msg.HandoverChanges ELSE msg.RepChanges

\* The handles of a (channel, object) that a call for Object resolves
\* fully: those pending on Object alone.
FullyResolved(pair, Object, bIsHandover) ==
    {h \in HandlesOf(pair[2], bIsHandover) :
        PendingSet(Forward(bIsHandover), pair, h) = {Object}}

\* All fully resolved handles of a live (channel, object) go in exactly one
\* update, and a (channel, object) without one gets no update.
BatchedPerObject(pair, Object, bIsHandover) ==
    IF FullyResolved(pair, Object, bIsHandover) = {}
    THEN UpdatesFor(Sent', pair) = {}
    ELSE /\ Cardinality(UpdatesFor(Sent', pair)) = 1
         /\ \A i \in UpdatesFor(Sent', pair) :
                Carried(Sent'[i], bIsHandover) = FullyResolved(pair, Object, bIsHandover)

ZeroTerminated(list) == list # nullptr /\ Len(list) > 0 /\ list[Len(list)] = 0

\* C8 as stated (batching, either kind): in one ResolveOutgoingOperations
\* call the fully resolved handles of a (channel, object) are batched into
\* exactly one update, none is sent for a (channel, object) with no fully
\* resolved handle, and the handle list of every update sent, of either
\* kind, ends with a zero handle.
C8_BatchedAndZeroTerminated ==
    [][ResolveRan =>
          /\ \A pair \in Pairs :
                 PairIsValid(pair) =>
                     BatchedPerObject(pair, LastCall'.Object, LastCall'.bIsHandover)
          /\ \A i \in 1..Len(Sent') :
                 ZeroTerminated(HandleList(Sent'[i], LastCall'.bIsHandover))]_vars

\* C8 (batching), amended: in one ResolveOutgoingOperations call the fully
\* resolved handles of a (channel, object) are batched into exactly one
\* update and none is sent for a (channel, object) with no fully resolved
\* handle; the list of a replicated-property update ends with a zero
\* handle, and the list of a handover update is the bare handles, with no
\* zero in it.
C8_Batched ==
    [][ResolveRan =>
          /\ \A pair \in Pairs :
                 PairIsValid(pair) =>
                     BatchedPerObject(pair, LastCall'.Object, LastCall'.bIsHandover)
          /\ \A i \in 1..Len(Sent') :
                 IF LastCall'.bIsHandover
                 THEN /\ Sent'[i].HandoverChanges # nullptr
                      /\ 0 \notin HandoverHandles(Sent'[i].HandoverChanges)
                 ELSE ZeroTerminated(Sent'[i].RepChanges)]_vars

\* The property and the array of A1 both waited for X alone: the call for
\* X sent them in one update whose list ends with zero, and nothing for S1.
C8_Witness ==
    /\ LastCall.op = "ResolveOutgoingOperations"
    /\ LastCall.Object = "X" /\ ~LastCall.bIsHandover
    /\ Len(Sent) = 1
    /\ Sent[1].Object = "A1"
    /\ Carried(Sent[1], FALSE) = {1, 2}
    /\ ZeroTerminated(Sent[1].RepChanges)

\* The create-entity requests in `sent`, by position.
CreateRequests(sent) == {i \in 1..Len(sent) : sent[i].op = "SendCreateEntityRequest"}

ReserveResponseRan == LastCall'.op = "OnReserveEntityIdResponse"
CreateResponseRan == LastCall'.op = "OnCreateEntityResponse"

\* C9 (creation retry), as a property of every step: the first cycle of a
\* channel that was given its entity id sends exactly one create-entity
\* request; every create failure for a live actor sends exactly one more;
\* a create success, a reserve response and a later cycle send none.
C9_OneCreateRequestPerAttempt ==
    [][/\ (ReplicateRan /\ LastCall'.creating)
            => Cardinality(CreateRequests(Sent')) = 1
       /\ (ReplicateRan /\ ~LastCall'.creating) => CreateRequests(Sent') = {}
       /\ ReserveResponseRan => CreateRequests(Sent') = {}
       /\ (CreateResponseRan /\ LastCall'.success) => CreateRequests(Sent') = {}
       /\ (CreateResponseRan /\ ~LastCall'.success /\ LastCall'.valid)
            => Cardinality(CreateRequests(Sent')) = 1]_vars

\* C10 (reserve retry): a reserve-entity-id failure for a live actor makes
\* the channel issue exactly one new reserve request, for the same
\* channel, which the receiver again awaits; the channel's EntityId is
\* still 0 and the entity registry and the net driver's channel map are
\* as they were.  Nothing counts the retries.
C10_ReserveFailureRetries ==
    [][(ReserveResponseRan /\ ~LastCall'.success /\ LastCall'.valid) =>
          /\ Sent' = << [op |-> "SendReserveEntityIdRequest", Channel |-> LastCall'.Channel] >>
          /\ PendingActorRequests'[LastCall'.Channel].reserve
                 = PendingActorRequests[LastCall'.Channel].reserve
          /\ EntityId'[LastCall'.Channel] = 0
          /\ Actor[LastCall'.Channel] \notin DOMAIN EntityRegistry'
          /\ UNCHANGED <<EntityRegistry, ActorChannels, EntityId>>
          /\ Halted' = ""]_vars

\* The second failure in a row: the reserve request was issued again, one
\* request is awaited, and the channel has no entity id.
C10_Witness ==
    /\ LastCall.op = "OnReserveEntityIdResponse"
    /\ ~LastCall.success /\ LastCall.valid
    /\ Failures = 2
    /\ PendingActorRequests["c1"].create = 0
    /\ PendingActorRequests["c1"].reserve = 1
    /\ Sent = << [op |-> "SendReserveEntityIdRequest", Channel |-> "c1"] >>
    /\ EntityId["c1"] = 0 /\ EntityRegistry = EmptyMap

\* A reserve response that reported success to a live actor.
ReserveSucceeded ==
    ReserveResponseRan /\ LastCall'.success /\ LastCall'.valid

\* A create request composed from every rep and handover handle of every
\* object of the channel.
FullInitialSet(msg) ==
    \A o \in ObjectsOf(msg.Channel) :
        /\ RootHandles(o, msg.Data[o].RepChanges) = RepHandlesOf(o)
        /\ HandoverHandles(msg.Data[o].HandoverChanges) = HandoverHandlesOf(o)

\* C11 as stated (create on reserve success): handling a reserve success
\* records the entity id and, in the same handler, sends the create-entity
\* request with the full initial component set.
C11_CreateSentWithReserveSuccess ==
    [][ReserveSucceeded =>
          /\ EntityId'[LastCall'.Channel] = ReservedEntityId(LastCall'.Channel)
          /\ Cardinality(CreateRequests(Sent')) = 1
          /\ \A i \in CreateRequests(Sent') : FullInitialSet(Sent'[i])]_vars

\* C11 (create after reserve success), amended: handling a reserve success
\* records the entity id and sends no create-entity request, the channel
\* staying marked as creating; the request, carrying the full initial
\* component set under the recorded id, is sent by the channel's next
\* cycle (ReplicateActor), unless the class is grouped into a working set.
C11_CreateSentByFirstCycle ==
    [][/\ ReserveSucceeded =>
             /\ EntityId'[LastCall'.Channel] = ReservedEntityId(LastCall'.Channel)
             /\ bCreatingNewEntity'[LastCall'.Channel]
             /\ CreateRequests(Sent') = {}
             /\ PendingActorRequests'[LastCall'.Channel].create = 0
       /\ (ReplicateRan /\ LastCall'.creating /\ ~IsAValidWorkingSet(LastCall'.Channel)) =>
             /\ Len(Sent') = 1
             /\ Sent'[1].op = "SendCreateEntityRequest"
             /\ Sent'[1].Channel = LastCall'.Channel
             /\ Sent'[1].EntityId = EntityId[LastCall'.Channel]
             /\ Sent'[1].EntityId = ReservedEntityId(LastCall'.Channel)
             /\ FullInitialSet(Sent'[1])
             /\ ~bCreatingNewEntity'[LastCall'.Channel]
             /\ PendingActorRequests'[LastCall'.Channel].create = 1
       /\ (ReplicateRan /\ ~LastCall'.creating) => CreateRequests(Sent') = {}]_vars

\* The first cycle after the id was reserved sent the create request.
C11_Witness ==
    /\ LastCall.op = "ReplicateActor" /\ LastCall.creating
    /\ Len(Sent) = 1
    /\ Sent[1].op = "SendCreateEntityRequest"
    /\ Sent[1].EntityId = 1
    /\ FullInitialSet(Sent[1])
    /\ PendingActorRequests["c1"] = [reserve |-> 0, create |-> 1]
    /\ ~bCreatingNewEntity["c1"]

\* A create response that reported a failure to a live actor.
CreateFailed ==
    CreateResponseRan /\ ~LastCall'.success /\ LastCall'.valid

\* C12 (identical retry): when a create failure for a live actor is
\* handled right after the handler that sent the failed request, the
\* request sent again is that request: same entity id, same component
\* data, same working-set parent.
C12_RetryRepeatsRequest ==
    [][(CreateFailed /\ Halted' = "" /\ CreateRequests(Sent) # {}) =>
          /\ CreateRequests(Sent') # {}
          /\ \A i \in CreateRequests(Sent) : \A j \in CreateRequests(Sent') :
                 Sent'[j] = Sent[i]]_vars

\* C13 (failures never halt): in every state the program reaches, the
\* handling of a reserve or create failure response has tripped no check:
\* it retried the request, also when fields queued by the first create
\* attempt were still pending.
C13_FailureNeverHalts ==
    (/\ LastCall.op \in {"OnReserveEntityIdResponse", "OnCreateEntityResponse"}
     /\ ~LastCall.success)
        => (/\ Halted = ""
            /\ LastCall.valid => Len(Sent) = 1)

\* The notifications of a kind in `sent`, by position.
Notifications(sent, op) == {i \in 1..Len(sent) : sent[i].op = op}

\* A step that registers an entity id or notifies the singleton tracker or
\* the package map of one.
Registers ==
    \/ EntityRegistry' # EntityRegistry
    \/ Notifications(Sent', "UpdateSingletonEntityId") # {}
    \/ Notifications(Sent', "ResolveEntityActor") # {}

\* C14 as stated (registration on create success): the entity id is
\* registered, the singleton tracker notified and the stably named actor
\* resolved only in the handling of a create success.
C14_RegisteredOnCreateSuccess ==
    [][Registers => (CreateResponseRan /\ LastCall'.success)]_vars

\* C14 (registration), amended: the entity id is registered in the entity
\* registry and the net driver's channel map, the singleton tracker is
\* notified for a singleton class and the package map resolves a stably
\* named actor, all in the handling of the reserve success, before any
\* create request was sent; the handling of a create success registers and
\* notifies nothing.
C14_RegisteredOnReserveSuccess ==
    [][/\ Registers => ReserveSucceeded
       /\ ReserveSucceeded =>
             /\ EntityRegistry' = MapAdd(EntityRegistry, Actor[LastCall'.Channel],
                                         ReservedEntityId(LastCall'.Channel))
             /\ ActorChannels' = MapAdd(ActorChannels, ReservedEntityId(LastCall'.Channel),
                                        LastCall'.Channel)
             /\ Sent' = (IF ActorClass[Actor[LastCall'.Channel]].Singleton
                         THEN << [op |-> "UpdateSingletonEntityId",
                                  Actor |-> Actor[LastCall'.Channel],
                                  EntityId |-> ReservedEntityId(LastCall'.Channel)] >>
                         ELSE << >>) \o
                        (IF ActorClass[Actor[LastCall'.Channel]].Stable
                         THEN << [op |-> "ResolveEntityActor",
                                  Actor |-> Actor[LastCall'.Channel],
                                  EntityId |-> ReservedEntityId(LastCall'.Channel)] >>
                         ELSE << >>)
             /\ bCreatingNewEntity[LastCall'.Channel]
             /\ PendingActorRequests[LastCall'.Channel].create = 0
       /\ (CreateResponseRan /\ LastCall'.success) =>
             /\ Sent' = << >>
             /\ UNCHANGED <<EntityRegistry, ActorChannels, EntityId>>]_vars

\* The reserve success of a stably named singleton: registered, and both
\* collaborators told, with no create request sent yet.
C14_Witness ==
    /\ LastCall.op = "OnReserveEntityIdResponse" /\ LastCall.success /\ LastCall.valid
    /\ ActorClass["A1"].Singleton /\ ActorClass["A1"].Stable
    /\ EntityRegistry = MapAdd(EmptyMap, "A1", 1)
    /\ Notifications(Sent, "UpdateSingletonEntityId") = {1}
    /\ Notifications(Sent, "ResolveEntityActor") = {2}
    /\ PendingActorRequests["c1"].create = 0

\* A response handled for a channel whose actor is gone.
ResponseForDeadActor ==
    /\ ReserveResponseRan \/ CreateResponseRan
    /\ Actor[LastCall'.Channel] = "null" \/ Actor[LastCall'.Channel] \in Invalid

\* C15 (stale responses): a reserve or create response, success or
\* failure, handled after the actor was destroyed or marked pending kill
\* changes no channel state (EntityId, creating flag, registry, channel
\* map), no pending entry, sends nothing and awaits no new request.
C15_StaleResponseDiscarded ==
    [][ResponseForDeadActor =>
          /\ Sent' = << >> /\ Halted' = ""
          /\ UNCHANGED <<EntityId, bCreatingNewEntity, EntityRegistry, ActorChannels, Indices>>
          /\ PendingActorRequests'[LastCall'.Channel].reserve
                 <= PendingActorRequests[LastCall'.Channel].reserve
          /\ PendingActorRequests'[LastCall'.Channel].create
                 <= PendingActorRequests[LastCall'.Channel].create]_vars

\* The reserve succeeded for an actor destroyed meanwhile: no id, nothing
\* registered, nothing awaited.
C15_Witness ==
    /\ LastCall.op = "OnReserveEntityIdResponse" /\ LastCall.success /\ ~LastCall.valid
    /\ "A1" \in Invalid
    /\ EntityId["c1"] = 0 /\ EntityRegistry = EmptyMap /\ ActorChannels = EmptyMap
    /\ PendingActorRequests["c1"] = [reserve |-> 0, create |-> 0]
    /\ Sent = << >>

AttachRan == LastCall'.op = "SetChannelActor"

\* C16 (attach): SetChannelActor for an actor of a class with type
\* bindings that the entity registry does not know issues exactly one
\* reserve request and marks the channel as creating; for an actor the
\* registry knows, the channel takes the registered id, is entered in the
\* net driver's channel map under it, and no request is issued.
C16_AttachReservesOrAdopts ==
    [][(AttachRan /\ ActorClass[ActorOf(LastCall'.Channel)].Name # "Unsupported") =>
          /\ Halted' = ""
          /\ IF ActorOf(LastCall'.Channel) \in DOMAIN EntityRegistry
             THEN /\ EntityId'[LastCall'.Channel] = EntityRegistry[ActorOf(LastCall'.Channel)]
                  /\ ActorChannels' = MapAdd(ActorChannels, EntityId'[LastCall'.Channel],
                                             LastCall'.Channel)
                  /\ ~bCreatingNewEntity'[LastCall'.Channel]
                  /\ Sent' = << >>
                  /\ PendingActorRequests' = PendingActorRequests
             ELSE /\ EntityId'[LastCall'.Channel] = 0
                  /\ bCreatingNewEntity'[LastCall'.Channel]
                  /\ Sent' = << [op |-> "SendReserveEntityIdRequest",
                                  Channel |-> LastCall'.Channel] >>
                  /\ PendingActorRequests'[LastCall'.Channel] = [reserve |-> 1, create |-> 0]
                  /\ ActorChannels' = ActorChannels]_vars

\* The channel was attached to an actor the registry knew as entity 1.
C16_Witness ==
    /\ LastCall.op = "SetChannelActor"
    /\ Actor["c1"] = "A1" /\ ActorClass["A1"].Name = "PlainActor"
    /\ EntityRegistry = MapAdd(EmptyMap, "A1", 1)
    /\ EntityId["c1"] = 1 /\ ActorChannels = MapAdd(EmptyMap, 1, "c1")
    /\ ~bCreatingNewEntity["c1"]
    /\ Sent = << >>
    /\ PendingActorRequests["c1"] = [reserve |-> 0, create |-> 0]

\* The component updates in `sent`, for any object.
ComponentUpdates(sent) == {i \in 1..Len(sent) : sent[i].op = "SendComponentUpdates"}

SendRPCRan == LastCall'.op = "SendRPC"

\* A pending call that no longer depends on an unresolved object.
Sendable(RPCParams) ==
    OutUnresolvedObject(RPCParams.TargetObject, RPCParams.Parameters) = "none"

\* What the worker connection is handed for a list of pending calls.
Transmissions(RPCList) ==
    [i \in 1..Len(RPCList) |->
        [op |-> IF RPCTypeOf(RPCList[i].Function) = "RPC_NetMulticast"
                THEN "SendMulticastUpdate" ELSE "SendCommandRequest",
         TargetObject |-> RPCList[i].TargetObject, Function |-> RPCList[i].Function,
         Parameters |-> RPCList[i].Parameters]]

C19_LedgerBound ==
    \A o \in AllObjects :
        /\ RepState[o].HistoryEnd >= RepState[o].HistoryStart
        /\ RepState[o].HistoryEnd - RepState[o].HistoryStart <= MAX_CHANGE_HISTORY

\* The actor's ledger took MAX_CHANGE_HISTORY + 1 change lists, one a
\* cycle, and its markers wrapped round the ring.
C19_Witness ==
    /\ LastCall.op = "ReplicateActor" /\ Halted = ""
    /\ RepState["A1"].LastChangelistIndex = MAX_CHANGE_HISTORY + 1
    /\ RepState["A1"].HistoryStart = (MAX_CHANGE_HISTORY + 1) % MAX_CHANGE_HISTORY
    /\ RepState["A1"].HistoryEnd = RepState["A1"].HistoryStart

\* C20 (ledger overflow): a cycle that merges from a shared ledger whose
\* end is more than MAX_CHANGE_HISTORY change lists past the channel's
\* cursor stops on a failed check.
C20_OverflowDetected ==
    [][\A o \in AllObjects :
          (/\ ReplicateRan
           /\ RepState'[o].LastChangelistIndex = ChangelistState'[o].HistoryEnd
           /\ ChangelistState'[o].HistoryEnd - RepState[o].LastChangelistIndex
                  > MAX_CHANGE_HISTORY)
          => Halted' # ""]_vars

\* The cursor of the slower of the two readers of an object's shared ledger.
SlowestCursor(o) ==
    IF RepState[o].LastChangelistIndex <= PeerRepState[o].LastChangelistIndex
    THEN RepState[o].LastChangelistIndex ELSE PeerRepState[o].LastChangelistIndex

C23_EntriesNonEmpty ==
    [][/\ Halted' # "check(HistoryItem.Changed.Num() > 0)"
       /\ \A o \in AllObjects : \A i \in 0..(2 * MAX_CHANGE_HISTORY) :
              (RepState'[o].HistoryStart <= i /\ i < RepState'[o].HistoryEnd)
              => Len(RepState'[o].ChangeHistory[i % MAX_CHANGE_HISTORY]) > 0
       /\ (ReplicateRan /\ Len(LastCall'.RepChanged) = 0)
              => RepState'[Actor[LastCall'.Channel]].HistoryStart
                    = RepState[Actor[LastCall'.Channel]].HistoryStart]_vars

\* The cycle that creates the entity merged nothing: it did not fail and
\* the actor's markers stayed where they were.
C23_Witness ==
    /\ LastCall.op = "ReplicateActor" /\ LastCall.creating
    /\ LastCall.RepChanged = << >>
    /\ Halted = ""
    /\ Cardinality(CreateRequests(Sent)) = 1
    /\ RepState["A1"].HistoryStart = 0 /\ RepState["A1"].HistoryEnd = 0

\* C29 (ledger retired): while the program runs, after every cycle the
\* ledger of each object on the channel has HistoryStart = HistoryEnd, both
\* within 0..MAX_CHANGE_HISTORY-1, and every slot of its ring empty.
C29_LedgerRetired ==
    Halted = "" =>
        \A o \in AllObjects :
            /\ RepState[o].HistoryStart = RepState[o].HistoryEnd
            /\ 0 <= RepState[o].HistoryStart
            /\ RepState[o].HistoryStart < MAX_CHANGE_HISTORY
            /\ \A i \in DOMAIN RepState[o].ChangeHistory :
                   RepState[o].ChangeHistory[i] = << >>

\* A cycle sent the subobject's change list, and the subobject's ledger is
\* retired with its markers one slot on.
C29_Witness ==
    /\ LastCall.op = "ReplicateActor" /\ ~LastCall.creating /\ Halted = ""
    /\ \E i \in 1..Len(Sent) : /\ Sent[i].op = "SendComponentUpdates"
                                 /\ Sent[i].Object = "S1"
                                 /\ Sent[i].RepChanges = <<1, 0>>
    /\ RepState["S1"].HistoryStart = 1 /\ RepState["S1"].HistoryEnd = 1
    /\ RepState["S1"].LastChangelistIndex = 1
    /\ \A i \in DOMAIN RepState["S1"].ChangeHistory : RepState["S1"].ChangeHistory[i] = << >>

\* C26 (missing shadow data is fatal): a cycle on an existing entity whose
\* actor has a handover subobject without shadow data halts on the lookup,
\* sends nothing for that subobject and creates no shadow data for it; and
\* SetChannelActor on a channel whose map already holds shadow data for the
\* actor halts and leaves the map as it was.
C26_MissingShadowFatal ==
    [][/\ \A c \in Channels :
            (/\ ReplicateRan /\ LastCall'.Channel = c /\ ~LastCall'.creating
             /\ GetHandoverSubobjects(Actor[c]) \ DOMAIN HandoverShadowDataMap # {})
            => /\ Halted' = "HandoverShadowDataMap.FindChecked"
               /\ DOMAIN HandoverShadowDataMap' = DOMAIN HandoverShadowDataMap
               /\ \A i \in 1..Len(Sent') :
                      Sent'[i].op = "SendComponentUpdates"
                      => Sent'[i].Object \in DOMAIN HandoverShadowDataMap
       /\ \A c \in Channels :
            (/\ AttachRan /\ LastCall'.Channel = c
             /\ ActorOf(c) \in DOMAIN HandoverShadowDataMap)
            => /\ Halted' = "SetChannelActor: check(!HandoverShadowDataMap.Contains)"
               /\ HandoverShadowDataMap' = HandoverShadowDataMap
               /\ Sent' = << >>]_vars

\* The subobject started replicating after the channel was opened, and the
\* next cycle of the existing entity halted on the lookup.
C26_Witness ==
    /\ LastCall.op = "ReplicateActor" /\ ~LastCall.creating
    /\ Halted = "HandoverShadowDataMap.FindChecked"
    /\ "H1" \in HandoverSubobjects["A1"]
    /\ DOMAIN HandoverShadowDataMap = {"A1"}

\* The handover fields of an object whose value differs from its shadow data.
Differing(o) == {h \in HandoverHandlesOf(o) : HandoverShadowDataMap[o][h] # HandoverData[o][h]}

\* The handover subobjects a cycle on channel c compares.
Compared(c) == IF LastCall'.creating THEN {} ELSE GetHandoverSubobjects(Actor[c])

\* The handover change list a cycle sent for a subobject, {} when none.
SubobjectHandoverChanges(sent, o) ==
    UNION {HandoverHandles(sent[i].HandoverChanges) :
              i \in {j \in 1..Len(sent) : /\ sent[j].op = "SendComponentUpdates"
                                          /\ sent[j].Object = o}}

\* C24 as stated (diff correctness): in every cycle that completes,
\* GetHandoverChangeList returns exactly the handover fields whose value
\* differs from the shadow data, for the actor and for each handover
\* subobject, and afterwards the shadow data equals the current values.
C24_DiffExact ==
    [][\A c \in Channels :
          (ReplicateRan /\ LastCall'.Channel = c /\ Halted' = "")
          => /\ HandoverHandles(LastCall'.HandoverChangeState) = Differing(Actor[c])
             /\ HandoverShadowDataMap'[Actor[c]] = HandoverData[Actor[c]]
             /\ \A o \in Compared(c) :
                    /\ SubobjectHandoverChanges(Sent', o) = Differing(o)
                    /\ HandoverShadowDataMap'[o] = HandoverData[o]]_vars

\* C24 as amended: the same, except that the cycle that creates the entity
\* returns every handover field of the actor, differing or not.
C24_DiffExactOrForced ==
    [][\A c \in Channels :
          (ReplicateRan /\ LastCall'.Channel = c /\ Halted' = "")
          => /\ HandoverHandles(LastCall'.HandoverChangeState)
                    = (IF LastCall'.creating THEN HandoverHandlesOf(Actor[c])
                       ELSE Differing(Actor[c]))
             /\ HandoverShadowDataMap'[Actor[c]] = HandoverData[Actor[c]]
             /\ \A o \in Compared(c) :
                    /\ SubobjectHandoverChanges(Sent', o) = Differing(o)
                    /\ HandoverShadowDataMap'[o] = HandoverData[o]]_vars

\* After two mutations and two cycles on an existing entity, the last cycle
\* returned the actor's changed field and sent the subobject's, and both
\* shadow records hold the current values.
C24_Witness ==
    /\ LastCall.op = "ReplicateActor" /\ ~LastCall.creating /\ Halted = ""
    /\ LastCall.HandoverChangeState = <<1>>
    /\ SubobjectHandoverChanges(Sent, "H1") = {1}
    /\ HandoverData["A1"][1] = {"Y"} /\ HandoverData["H1"][1] = {"X"}
    /\ HandoverShadowDataMap["A1"] = HandoverData["A1"]
    /\ HandoverShadowDataMap["H1"] = HandoverData["H1"]

TypesOf(Cmds) == [j \in DOMAIN Cmds |-> Cmds[j].Type]
RootArrays(Cmds) ==
    {k \in DOMAIN Cmds : Cmds[k].Type = "DynamicArray" /\ DepthBefore(TypesOf(Cmds), k) = 0}
EntryOf(Cmds, i) == i + Cardinality({k \in RootArrays(Cmds) : k < i})

\* C30 (array framing): for every well-formed layout the initial change
\* list holds each command's handle in layout order and, right after the
\* handle of each root-level dynamic array, the number of entries between
\* that count and the entry of the array's closing Return, so that that
\* many entries past the count comes the terminator, a zero.
C30_ArrayFraming ==
    LastCall.op = "CreateInitialRepChangeState" =>
        /\ Len(LastCall.InitialRepChanged)
               = Len(RepLayout) + Cardinality(RootArrays(RepLayout))
        /\ \A i \in DOMAIN RepLayout :
               LastCall.InitialRepChanged[EntryOf(RepLayout, i)] = RepLayout[i].RelativeHandle
        /\ \A a \in RootArrays(RepLayout) :
               /\ LastCall.InitialRepChanged[EntryOf(RepLayout, a) + 1]
                      = EntryOf(RepLayout, ClosingReturn(TypesOf(RepLayout), a))
                            - (EntryOf(RepLayout, a) + 1) - 1
               /\ LastCall.InitialRepChanged[
                      EntryOf(RepLayout, a) + 1
                          + LastCall.InitialRepChanged[EntryOf(RepLayout, a) + 1] + 1] = 0

\* A property, then an array whose elements hold an array of properties:
\* the outer array has a count of three, the inner one none.
C30_Witness ==
    /\ LastCall.op = "CreateInitialRepChangeState"
    /\ TypesOf(RepLayout) = <<"Property", "DynamicArray", "DynamicArray", "Property",
                              "Return", "Return", "Return">>
    /\ LastCall.InitialRepChanged = <<1, 2, 3, 1, 1, 0, 0, 0>>

\* The unresolved objects the factory reported for handle h of a kind when
\* it composed a component update.
Reported(msg, h, bIsHandover) ==
    IF bIsHandover
    THEN (IF h \in DOMAIN msg.HandoverRead THEN msg.HandoverRead[h] \ Resolved ELSE {})
    ELSE (IF h \in DOMAIN msg.RepRead THEN msg.RepRead[h] \ Resolved ELSE {})

\* C28 (supersede on re-dirty): when a handler that completes has sent a
\* component update for (channel, object) whose change list names handle h
\* of a kind, the pending entry of (channel, object, h) of that kind is
\* afterwards exactly the set of unresolved objects reported for h's new
\* value, there is no entry when that set is empty, and the targets that
\* index the entry are exactly the objects of that set.
C28_Supersede ==
    [][Halted' = "" =>
          \A i \in 1..Len(Sent') :
              Sent'[i].op = "SendComponentUpdates" =>
                  \A bIsHandover \in BOOLEAN : \A h \in Carried(Sent'[i], bIsHandover) :
                      /\ PendingSet(ForwardNext(bIsHandover),
                                    <<Sent'[i].Channel, Sent'[i].Object>>, h)
                             = Reported(Sent'[i], h, bIsHandover)
                      /\ Reported(Sent'[i], h, bIsHandover) = {}
                             => ~(/\ <<Sent'[i].Channel, Sent'[i].Object>>
                                         \in DOMAIN ForwardNext(bIsHandover)
                                  /\ h \in DOMAIN ForwardNext(bIsHandover)[
                                                      <<Sent'[i].Channel, Sent'[i].Object>>])
                      /\ \A t \in Targets :
                             Mirrored(BackwardNext(bIsHandover), t,
                                      <<Sent'[i].Channel, Sent'[i].Object>>, h)
                                 <=> t \in Reported(Sent'[i], h, bIsHandover)]_vars

\* The array of A1 was pending and became dirty again with a value that
\* references X alone: the cycle reset the old entry, the new one is pending
\* on X and nothing indexes it under Y.
C28_Witness ==
    /\ LastCall.op = "ReplicateActor" /\ Halted = ""
    /\ <<(<<"c1", "A1">>), 2, FALSE>> \in Resets
    /\ \E i \in 1..Len(Sent) :
           /\ Sent[i].op = "SendComponentUpdates" /\ Sent[i].Object = "A1"
           /\ 2 \in Carried(Sent[i], FALSE)
           /\ Reported(Sent[i], 2, FALSE) = {"X"}
    /\ PendingSet(RepPropertyToUnresolved, <<"c1", "A1">>, 2) = {"X"}
    /\ Mirrored(RepObjectToUnresolved, "X", <<"c1", "A1">>, 2)
    /\ ~Mirrored(RepObjectToUnresolved, "Y", <<"c1", "A1">>, 2)

\* The working sets a handler asked the manager to create.
CreatedWorkingSets(sent) ==
    {sent[i].WorkingSetId : i \in {j \in 1..Len(sent) : sent[j].op = "CreateWorkingSet"}}

\* The number of channels enqueued for a working set, 0 when there is none.
WorkingSetSizeIn(sets, id) == IF id \in DOMAIN sets THEN Len(sets[id]) ELSE 0

\* C27 (batching policy): the cycle that creates the entity of an actor of a
\* grouped class enqueues the channel at the end of its working set and
\* sends no create-entity request for it; and a handler creates a working
\* set exactly when it brings that set's size to 3, once, so not while the
\* set has fewer members and not when a fourth is enqueued.
C27_BatchingPolicy ==
    [][/\ \A c \in Channels :
            (ReplicateRan /\ LastCall'.Channel = c /\ LastCall'.creating
             /\ IsAValidWorkingSet(c))
            => /\ WorkingSetId'[c] \in DOMAIN WorkingSets'
               /\ WorkingSets'[WorkingSetId'[c]]
                      = Append(IF WorkingSetId'[c] \in DOMAIN WorkingSets
                               THEN WorkingSets[WorkingSetId'[c]] ELSE << >>, c)
               /\ CreateRequests(Sent') = {}
       /\ \A id \in DOMAIN WorkingSets' :
            id \in CreatedWorkingSets(Sent')
                <=> /\ WorkingSetSizeIn(WorkingSets', id) = 3
                    /\ WorkingSetSizeIn(WorkingSets, id) = 2
       /\ Cardinality({i \in 1..Len(Sent') : Sent'[i].op = "CreateWorkingSet"}) <= 1
       /\ CreatedWorkingSets(Sent') \subseteq DOMAIN WorkingSets']_vars

\* Two channels were enqueued for a working set and the creating cycle of
\* c1 made it three: the cycle created the working set and sent no create
\* request of its own.
C27_Witness ==
    /\ LastCall.op = "ReplicateActor" /\ LastCall.creating /\ Halted = ""
    /\ WorkingSetId["c1"] = 0
    /\ WorkingSets[0] = <<"p1", "p2", "c1">>
    /\ CreatedWorkingSets(Sent) = {0}
    /\ CreateRequests(Sent) = {}

\* The objects an RPC depends on: its target and what its parameters
\* reference.
DependsOn(RPCParams) ==
    {RPCParams.TargetObject} \cup {RPCParams.Parameters[i] : i \in 1..Len(RPCParams.Parameters)}

StillBlocked(RPCParams) == ~(DependsOn(RPCParams) \subseteq Resolved)

\* The calls pending in a pending-RPC map, over all its keys.
PendingCalls(RPCs) ==
    LET n[S \in SUBSET DOMAIN RPCs] ==
            IF S = {} THEN 0
            ELSE LET k == CHOOSE x \in S : TRUE IN Len(RPCs[k]) + n[S \ {k}]
    IN  n[DOMAIN RPCs]

\* C31 (no re-queue under the flushed object): when ResolveOutgoingRPCs(Object)
\* ran over a pending list and returned, no call of that list was queued
\* again under Object: every call of the list that still depends on an
\* unresolved object is pending afterwards under a key other than Object
\* that it depends on and that is unresolved, the other calls of the list
\* were transmitted, and the final removal of Object's list dropped no call.
C31_NoRequeueUnderObject ==
    [][(ResolveRPCsRan /\ LastCall'.Object \in DOMAIN OutgoingRPCs /\ Halted' = "")
       => LET Object == LastCall'.Object
              RPCList == OutgoingRPCs[Object]
              Blocked == SelectSeq(RPCList, StillBlocked)
          IN  /\ Object \notin DOMAIN OutgoingRPCs'
              /\ \A i \in 1..Len(Blocked) :
                    \E k \in (DependsOn(Blocked[i]) \ Resolved) \ {Object} :
                        /\ k \in DOMAIN OutgoingRPCs'
                        /\ \E j \in 1..Len(OutgoingRPCs'[k]) : OutgoingRPCs'[k][j] = Blocked[i]
              /\ Len(Sent') = Len(RPCList) - Len(Blocked)
              /\ PendingCalls(OutgoingRPCs')
                     = PendingCalls(OutgoingRPCs) - Len(RPCList) + Len(Blocked)]_vars

\* A call on Y that references X was pending under Y; Y was resolved and
\* flushed while X was not: the call is pending under X, nothing was sent.
C31_Witness ==
    /\ LastCall = [op |-> "ResolveOutgoingRPCs", Object |-> "Y"]
    /\ Halted = ""
    /\ "X" \notin Resolved
    /\ Sent = << >>
    /\ DOMAIN OutgoingRPCs = {"X"}
    /\ \E f \in Functions :
           OutgoingRPCs["X"] = << [TargetObject |-> "Y", Function |-> f,
                                   Parameters |-> <<"X">>] >>

\* What SendRPC hands the connection for a call.
TransmissionOf(RPCParams) ==
    [op |-> IF RPCTypeOf(RPCParams.Function) = "RPC_NetMulticast"
            THEN "SendMulticastUpdate" ELSE "SendCommandRequest",
     TargetObject |-> RPCParams.TargetObject, Function |-> RPCParams.Function,
     Parameters |-> RPCParams.Parameters]

\* The keys of a pending-RPC map whose list differs between two maps.
ChangedKeys(before, after) ==
    {k \in DOMAIN before \cup DOMAIN after :
        FindOrAdd(before, k, << >>) # FindOrAdd(after, k, << >>)}

Calls ==
    [TargetObject : Targets, Function : Functions, Parameters : RPCInputs.ParameterLists]

\* How often a call is pending in a pending-RPC map, over all its lists.
Occurrences(RPCs, call) ==
    LET n[S \in SUBSET DOMAIN RPCs] ==
            IF S = {} THEN 0
            ELSE LET k == CHOOSE x \in S : TRUE
                 IN  Len(SelectSeq(RPCs[k], LAMBDA r : r = call)) + n[S \ {k}]
    IN  n[DOMAIN RPCs]

\* How often a handler transmitted a call.
TransmittedIn(sent, call) ==
    Cardinality({i \in 1..Len(sent) : sent[i] = TransmissionOf(call)})

\* C33 (no RPC lost or duplicated, and pending RPCs drain): over every run
\* of SendRPC, ResolveOutgoingRPCs and resolutions that has not stopped, a
\* call invoked on an object of a class with type bindings is, by the
\* handler that takes it, transmitted once or made pending once and not
\* both; every later handler keeps it pending exactly as often as before
\* or transmits it once for each occurrence it takes out of the map, so a
\* call is never dropped and never copied.  And a pending call leaves the
\* map, which by the above means it was transmitted, once the objects it
\* depends on are resolved and reported to ResolveOutgoingRPCs.
C33_NoRPCLostOrDuplicated ==
    /\ [][Halted' = "" =>
            \A call \in Calls :
               Occurrences(OutgoingRPCs', call) + TransmittedIn(Sent', call)
                  = Occurrences(OutgoingRPCs, call)
                    + (IF SendRPCRan
                          /\ call = [TargetObject |-> LastCall'.TargetObject,
                                     Function |-> LastCall'.Function,
                                     Parameters |-> LastCall'.Parameters]
                       THEN 1 ELSE 0)]_vars
    /\ (OutgoingRPCs # EmptyMap) ~> (OutgoingRPCs = EmptyMap \/ Halted # "")

\* A call on Y that references X was queued under Y, moved to X when Y was
\* flushed, and was transmitted, once, when X was flushed.
C33_Witness ==
    /\ LastCall = [op |-> "ResolveOutgoingRPCs", Object |-> "X"]
    /\ Halted = ""
    /\ Sent = << [op |-> "SendCommandRequest", TargetObject |-> "Y",
                  Function |-> "ServerRPC", Parameters |-> <<"X">>] >>
    /\ OutgoingRPCs = EmptyMap

\* C34 (resolved target gone from both indices): when
\* ResolveOutgoingOperations(target, kind) has returned, target is not a key
\* of the reverse index of that kind and is in no pending set of the forward
\* index of that kind, the entries of destroyed channels or objects, which
\* the call skips without sending, included.
C34_TargetGoneBothWays ==
    [][(ResolveRan /\ Halted' = "")
       => /\ LastCall'.Object \notin DOMAIN BackwardNext(LastCall'.bIsHandover)
          /\ \A pair \in DOMAIN ForwardNext(LastCall'.bIsHandover) :
                \A h \in DOMAIN ForwardNext(LastCall'.bIsHandover)[pair] :
                    LastCall'.Object
                        \notin ForwardNext(LastCall'.bIsHandover)[pair][h]]_vars

\* C35 (fields that are not dirty keep their pending entries): a cycle that
\* creates no entity leaves the pending rep entry (channel, object, h) as
\* it was unless field h is in the change list of a SendComponentUpdates
\* call the cycle makes for that object; a count marker or an element
\* handle inside an array's frame that happens to equal h removes nothing.
C35_CleanFieldsKeepEntries ==
    [][(ReplicateRan /\ ~LastCall'.creating /\ Halted' = "")
       => \A pair \in Pairs : \A h \in RepHandlesOf(pair[2]) :
              Carrying(Sent', pair, h, FALSE) = {}
                  => PendingSet(ForwardNext(FALSE), pair, h)
                         = PendingSet(Forward(FALSE), pair, h)]_vars

\* The component updates a cycle's ReplicateSubobject calls sent: those for
\* a subobject that carry a rep change list.
SubobjectUpdates(sent, c) ==
    {i \in 1..Len(sent) : /\ sent[i].op = "SendComponentUpdates"
                          /\ sent[i].Channel = c
                          /\ sent[i].Object \in SubobjectsOf(c)
                          /\ sent[i].RepChanges # nullptr}

\* C36 (ReplicateSubobject reports what it sent): in a cycle that creates no
\* entity and in which the actor itself has nothing changed, ReplicateActor
\* returns true exactly when a ReplicateSubobject call of the cycle sent a
\* component update, that is when a subobject's merged change list was not
\* empty.
C36_SubobjectResult ==
    [][(ReplicateRan /\ ~LastCall'.creating /\ Halted' = ""
        /\ Len(LastCall'.RepChanged) = 0 /\ Len(LastCall'.HandoverChangeState) = 0)
       => (LastCall'.result <=> SubobjectUpdates(Sent', LastCall'.Channel) # {})]_vars

\* A create-entity request that carries the objects of channel c has been
\* issued: the channel has its entity id and is past the cycle that creates
\* the entity (an entity the channel adopted was created by the worker it
\* came from), and if that cycle routed the channel to a working set, the
\* set was created with the channel among its members.
CreateIssued(c) ==
    /\ Actor[c] # "null" /\ EntityId[c] # 0 /\ ~bCreatingNewEntity[c]
    /\ \A id \in DOMAIN WorkingSets : \A i \in 1..Len(WorkingSets[id]) :
          WorkingSets[id][i] = c => (i <= WorkingSetSize /\ Len(WorkingSets[id]) >= WorkingSetSize)

\* C37 (no update before the create request): a handler, cycle or flush,
\* sends a component update for an object of a channel only if a
\* create-entity request carrying the channel's objects was issued before,
\* also when the channel was routed to a working set that has not reached
\* its size yet.
C37_NoUpdateBeforeCreate ==
    [][\A c \in Channels :
          (\E i \in 1..Len(Sent') : /\ Sent'[i].op = "SendComponentUpdates"
                                    /\ Sent'[i].Channel = c)
          => CreateIssued(c)]_vars

CloseRan == LastCall'.op = "Close"

\* The requests of one kind a handler handed on, by position.
RequestsOf(sent, op) == {i \in 1..Len(sent) : sent[i].op = op}

\* C38 (closing never deletes a singleton): Close sends a delete-entity
\* request, one, for the channel's entity exactly when the worker
\* connection exists, authoritative destruction is allowed, the worker is
\* authoritative over the entity's position component and the entity is
\* not a singleton, so never for a singleton; and it has the receiver clean
\* the entity up locally exactly when the connection exists, whether or not
\* the request was sent.
C38_CloseSparesSingletons ==
    [][CloseRan =>
          LET c == LastCall'.Channel
              singleton == Actor[c] # "null" /\ ActorClass[Actor[c]].Singleton
              due == /\ LastCall'.Connection /\ LastCall'.bAllowed
                     /\ LastCall'.Authority = "WORKER_AUTHORITY_AUTHORITATIVE"
                     /\ ~singleton
          IN  /\ Cardinality(RequestsOf(Sent', "SendDeleteEntityRequest"))
                    = (IF due THEN 1 ELSE 0)
              /\ \A i \in RequestsOf(Sent', "SendDeleteEntityRequest") :
                    Sent'[i].EntityId = EntityId[c]
              /\ Cardinality(RequestsOf(Sent', "CleanupDeletedEntity"))
                    = (IF LastCall'.Connection THEN 1 ELSE 0)
              /\ \A i \in RequestsOf(Sent', "CleanupDeletedEntity") :
                    Sent'[i].EntityId = EntityId[c]]_vars

\* The channel of a singleton's entity was closed by a worker that has the
\* connection, may destroy and is authoritative: the entity was cleaned up
\* locally and no delete request was sent.
C38_Witness ==
    /\ LastCall = [op |-> "Close", Channel |-> "c1", Connection |-> TRUE,
                   bAllowed |-> TRUE, Authority |-> "WORKER_AUTHORITY_AUTHORITATIVE"]
    /\ Actor["c1"] = "A1" /\ ActorClass["A1"].Singleton /\ EntityId["c1"] # 0
    /\ Sent = << [op |-> "CleanupDeletedEntity", EntityId |-> EntityId["c1"]] >>

TickRan == LastCall'.op = "SpatialViewTick"

\* C39 (a failed ACL update is attempted again): on a server, when a tick
\* attempted the ACL update of a channel and UpdateEntityACLs failed because
\* the entity's ACL was not in the view, the channel's next tick, finding
\* the actor still usable, attempts it again, and sends the update for the
\* actor's current owner if the ACL is in the view by then; this for an
\* attempt made on the first tick and for one made after it because the
\* ownership had changed.
C39_AclUpdateRetried ==
    [][(/\ IsServer
        /\ LastCall.op = "SpatialViewTick" /\ LastCall.attempted
        /\ LastCall.EntityACL = "nullptr"
        /\ TickRan /\ LastCall'.Channel = LastCall.Channel
        /\ Actor[LastCall.Channel] \notin Invalid)
       => /\ LastCall'.attempted
          /\ LastCall'.EntityACL # "nullptr"
                => Sent' = << [op |-> "SendEntityAclUpdate",
                               EntityId |-> EntityId[LastCall.Channel],
                               NetOwned |-> LastCall'.NetConnection] >>]_vars

====
